---- MODULE Spec2Model ----
(***************************************************************************)
(* Light-DB: the locked, crash-safe JSON document store (class Storage     *)
(* with operationQueue and lock file) modelled as a state machine.         *)
(*                                                                         *)
(* A JavaScript value is a record with the same six fields whatever its    *)
(* type, so that any two values can be compared.  A file is a sequence of  *)
(* JSON tokens (white space, which is all the `pretty` option changes, is  *)
(* not a token); JSON.stringify and JSON.parse are the operators Stringify *)
(* and JSONparse between values and token sequences.  A dot path is the    *)
(* sequence of its segments, i.e. the result of keyPath.split(".") ; the   *)
(* empty string path is the empty sequence.                                *)
(***************************************************************************)
EXTENDS Integers, Sequences, FiniteSets, TLC

(***************************************************************************)
(* JavaScript values                                                       *)
(***************************************************************************)
NoFn == <<>>

Undef == [t |-> "undef", n |-> 0, d |-> 1, s |-> "", a |-> <<>>, o |-> NoFn]

Null == [t |-> "null", n |-> 0, d |-> 1, s |-> "", a |-> <<>>, o |-> NoFn]

Bool(b) == [t |-> "bool", n |-> IF b THEN 1 ELSE 0, d |-> 1, s |-> "",
            a |-> <<>>, o |-> NoFn]

RECURSIVE Gcd(_, _)
Gcd(x, y) == IF y = 0 THEN x ELSE Gcd(y, x % y)

Abs(x) == IF x < 0 THEN -x ELSE x

\* A number is the fraction n/d in lowest terms with d > 0.
Rat(x, y) ==
  LET g == Gcd(Abs(x), Abs(y))
      sgn == IF y < 0 THEN -1 ELSE 1
  IN [t |-> "num", n |-> sgn * (x \div g), d |-> sgn * (y \div g), s |-> "",
      a |-> <<>>, o |-> NoFn]

Num(x) == Rat(x, 1)

Str(x) == [t |-> "str", n |-> 0, d |-> 1, s |-> x, a |-> <<>>, o |-> NoFn]

Arr(elems) == [t |-> "arr", n |-> 0, d |-> 1, s |-> "", a |-> elems, o |-> NoFn]

\* An object is a function from its own property names to their values.
Obj(f) == [t |-> "obj", n |-> 0, d |-> 1, s |-> "", a |-> <<>>,
           o |-> IF DOMAIN f = {} THEN NoFn ELSE f]

EmptyObj == Obj(NoFn)

\* Object.prototype and Array.prototype, which every object and array that
\* JSON.parse makes inherits from: `of` is "Object" or "Array".  Property
\* names in this model are "0", "1", "2", "a", "b", "length" and "__proto__";
\* the other names Object.prototype defines (constructor, toString, ...) are
\* not among them.
Prototype(of) == [t |-> "proto", n |-> 0, d |-> 1, s |-> of, a |-> <<>>, o |-> NoFn]

\* Property names in the order JSON.stringify emits them in this model.
KeyOrder == <<"0", "a", "b">>

\* The array index a property name denotes, or -1.
IndexOf(key) == CASE key = "0" -> 0 [] key = "1" -> 1 [] key = "2" -> 2 [] OTHER -> -1

\* typeof v === 'object' && v !== null
IsObjectLike(v) == v.t \in {"obj", "arr", "proto"}

IsArray(v) == v.t = "arr" \/ (v.t = "proto" /\ v.s = "Array")

isPlainObject(v) == v.t = "obj" \/ (v.t = "proto" /\ v.s = "Object")

\* JS  cur[key]  for an object or an array cur: an own property, or else the
\* inherited accessor __proto__, which returns the prototype.
GetProp(cur, key) ==
  IF cur.t = "obj"
    THEN IF key \in DOMAIN cur.o THEN cur.o[key]
         ELSE IF key = "__proto__" THEN Prototype("Object") ELSE Undef
  ELSE IF cur.t = "arr"
    THEN IF IndexOf(key) >= 0 /\ IndexOf(key) < Len(cur.a)
           THEN cur.a[IndexOf(key) + 1]
           ELSE IF key = "length" THEN Num(Len(cur.a))
           ELSE IF key = "__proto__" THEN Prototype("Array") ELSE Undef
  ELSE IF key = "__proto__"
    THEN IF cur.s = "Array" THEN Prototype("Object") ELSE Null
    ELSE IF key = "length" /\ cur.s = "Array" THEN Num(0) ELSE Undef

Failure(e) == [ok |-> FALSE, v |-> Undef, err |-> e]

Success(val) == [ok |-> TRUE, v |-> val, err |-> ""]

\* JS  cur[key] = value  in strict mode: a TypeError on null, undefined and
\* primitives.  Assigning __proto__ where it is no own property calls the
\* inherited setter, which changes the prototype or does nothing: the own
\* properties stay as they are.  On an array an index past the end leaves
\* holes, and a name that is no index makes an expando property, which
\* JSON.stringify does not emit, so the array is unchanged as persisted.
\* Properties assigned to a prototype object itself are not kept.
SetProp(cur, key, value) ==
  IF cur.t = "obj"
    THEN IF key = "__proto__" /\ key \notin DOMAIN cur.o
           THEN Success(cur)
           ELSE Success(Obj([k \in DOMAIN cur.o \cup {key} |->
                               IF k = key THEN value ELSE cur.o[k]]))
  ELSE IF cur.t = "arr"
    THEN IF IndexOf(key) >= 0
           THEN Success(Arr([k \in 1 .. (IF IndexOf(key) < Len(cur.a)
                                           THEN Len(cur.a) ELSE IndexOf(key) + 1) |->
                               IF k = IndexOf(key) + 1 THEN value
                               ELSE IF k <= Len(cur.a) THEN cur.a[k] ELSE Undef]))
           ELSE Success(cur)
  ELSE IF cur.t = "proto" THEN Success(cur)
  ELSE Failure("TypeError")

(***************************************************************************)
(* JSON text as tokens                                                     *)
(***************************************************************************)
Tok(kind, num, den, str) == [k |-> kind, n |-> num, d |-> den, s |-> str]

Punct(c) == Tok(c, 0, 1, "")

\* A token no JSON text contains: what a corrupted file holds.
Garbage == <<Tok("bad", 0, 1, "")>>

RECURSIVE Stringify(_)
RECURSIVE ElemTokens(_, _)
RECURSIVE MemberTokens(_, _, _)

\* The elements of an array from index i on, comma separated; undefined
\* elements are written as null.
ElemTokens(elems, i) ==
  IF i > Len(elems) THEN <<>>
  ELSE (IF i > 1 THEN <<Punct(",")>> ELSE <<>>)
       \o (IF elems[i].t = "undef" THEN <<Tok("null", 0, 1, "")>> ELSE Stringify(elems[i]))
       \o ElemTokens(elems, i + 1)

\* The members of an object from position i of KeyOrder on; properties whose
\* value is undefined are left out.
MemberTokens(f, i, first) ==
  IF i > Len(KeyOrder) THEN <<>>
  ELSE IF KeyOrder[i] \in DOMAIN f /\ f[KeyOrder[i]].t # "undef"
    THEN (IF first THEN <<>> ELSE <<Punct(",")>>)
         \o <<Tok("str", 0, 1, KeyOrder[i]), Punct(":")>>
         \o Stringify(f[KeyOrder[i]])
         \o MemberTokens(f, i + 1, FALSE)
    ELSE MemberTokens(f, i + 1, first)

Stringify(v) ==
  CASE v.t = "null" -> <<Tok("null", 0, 1, "")>>
    [] v.t = "bool" -> <<Tok("bool", v.n, 1, "")>>
    [] v.t = "num"  -> <<Tok("num", v.n, v.d, "")>>
    [] v.t = "str"  -> <<Tok("str", 0, 1, v.s)>>
    [] v.t = "arr"  -> <<Punct("[")>> \o ElemTokens(v.a, 1) \o <<Punct("]")>>
    [] v.t = "obj"  -> <<Punct("{")>> \o MemberTokens(v.o, 1, TRUE) \o <<Punct("}")>>
    [] v.t = "proto" -> IF v.s = "Array" THEN <<Punct("["), Punct("]")>>
                                         ELSE <<Punct("{"), Punct("}")>>
    [] OTHER        -> <<>>

PFail == [ok |-> FALSE, v |-> Undef, p |-> 0]

POk(val, pos) == [ok |-> TRUE, v |-> val, p |-> pos]

KindAt(toks, p) == IF p >= 1 /\ p <= Len(toks) THEN toks[p].k ELSE "eof"

RECURSIVE ParseValue(_, _)
RECURSIVE ParseElems(_, _, _)
RECURSIVE ParseMembers(_, _, _)

\* After "[" and the elements acc: "]" ends the array, "," value continues it.
ParseElems(toks, p, acc) ==
  IF KindAt(toks, p) = "]" THEN POk(Arr(acc), p + 1)
  ELSE IF acc # <<>> /\ KindAt(toks, p) # "," THEN PFail
  ELSE LET q == IF acc = <<>> THEN p ELSE p + 1
           e == ParseValue(toks, q)
       IN IF e.ok THEN ParseElems(toks, e.p, Append(acc, e.v)) ELSE PFail

\* After "{" and the members acc: "}" ends the object, "," string ":" value
\* continues it.
ParseMembers(toks, p, acc) ==
  IF KindAt(toks, p) = "}" THEN POk(Obj(acc), p + 1)
  ELSE IF DOMAIN acc # {} /\ KindAt(toks, p) # "," THEN PFail
  ELSE LET q == IF DOMAIN acc = {} THEN p ELSE p + 1
       IN IF KindAt(toks, q) # "str" \/ KindAt(toks, q + 1) # ":" THEN PFail
          ELSE LET e == ParseValue(toks, q + 2)
               IN IF e.ok
                    THEN ParseMembers(toks, e.p,
                           [k \in DOMAIN acc \cup {toks[q].s} |->
                              IF k = toks[q].s THEN e.v ELSE acc[k]])
                    ELSE PFail

ParseValue(toks, p) ==
  CASE KindAt(toks, p) = "null" -> POk(Null, p + 1)
    [] KindAt(toks, p) = "bool" -> POk(Bool(toks[p].n = 1), p + 1)
    [] KindAt(toks, p) = "num"  -> POk(Rat(toks[p].n, toks[p].d), p + 1)
    [] KindAt(toks, p) = "str"  -> POk(Str(toks[p].s), p + 1)
    [] KindAt(toks, p) = "["    ->
         IF KindAt(toks, p + 1) = "]" THEN POk(Arr(<<>>), p + 2)
         ELSE ParseElems(toks, p + 1, <<>>)
    [] KindAt(toks, p) = "{"    ->
         IF KindAt(toks, p + 1) = "}" THEN POk(EmptyObj, p + 2)
         ELSE ParseMembers(toks, p + 1, NoFn)
    [] OTHER -> PFail

\* JSON.parse: the value, or a SyntaxError.
JSONparse(toks) ==
  LET r == ParseValue(toks, 1)
  IN IF r.ok /\ r.p = Len(toks) + 1 THEN Success(r.v) ELSE Failure("SyntaxError")

(***************************************************************************)
(* Path helpers and arithmetic                                             *)
(***************************************************************************)
RECURSIVE Walk(_, _, _)
Walk(current, keys, defaultValue) ==
  IF keys = <<>> THEN current
  ELSE IF ~IsObjectLike(current) THEN defaultValue
  ELSE LET nxt == GetProp(current, Head(keys))
       IN IF nxt.t = "undef" THEN defaultValue
          ELSE Walk(nxt, Tail(keys), defaultValue)

deepGet(obj, keyPath, defaultValue) ==
  IF keyPath = <<>> THEN obj ELSE Walk(obj, keyPath, defaultValue)

\* The loop of deepSet from `current` on: the value of `current` afterwards,
\* or the TypeError of reading or assigning a property of a non-object.
RECURSIVE SetWalk(_, _, _)
SetWalk(current, keys, value) ==
  IF Len(keys) = 1 THEN
    IF current.t \in {"null", "undef"} THEN Failure("TypeError")
    ELSE SetProp(current, keys[1], value)
  ELSE IF current.t \in {"null", "undef"} THEN Failure("TypeError")
  ELSE IF ~IsObjectLike(current) THEN Failure("TypeError")
  ELSE LET child == GetProp(current, Head(keys))
           base == IF IsObjectLike(child) /\ ~IsArray(child) THEN child ELSE EmptyObj
           sub == SetWalk(base, Tail(keys), value)
       IN IF sub.ok THEN SetProp(current, Head(keys), sub.v) ELSE sub

deepSet(obj, keyPath, value) ==
  IF keyPath = <<>> THEN Failure("EmptyPath") ELSE SetWalk(obj, keyPath, value)

\* JS  key in cur  for an object or an array cur: own and inherited names.
HasProp(cur, key) ==
  IF cur.t = "obj" THEN key \in DOMAIN cur.o \/ key = "__proto__"
  ELSE IF cur.t = "arr"
    THEN \/ IndexOf(key) >= 0 /\ IndexOf(key) < Len(cur.a)
         \/ key \in {"length", "__proto__"}
  ELSE key = "__proto__" \/ (key = "length" /\ cur.s = "Array")

\* JS  delete cur[key]  in strict mode: an own property of an object is
\* removed, an element of an array becomes a hole, the length of an array
\* cannot be deleted (TypeError), an inherited name leaves cur as it is.
DeleteProp(cur, key) ==
  IF cur.t = "obj"
    THEN Success(Obj([k \in DOMAIN cur.o \ {key} |-> cur.o[k]]))
  ELSE IF cur.t = "arr"
    THEN IF key = "length" THEN Failure("TypeError")
         ELSE Success(Arr([k \in DOMAIN cur.a |->
                             IF k = IndexOf(key) + 1 THEN Undef ELSE cur.a[k]]))
  ELSE Success(cur)

Kept(val) == [ok |-> TRUE, deleted |-> FALSE, v |-> val, err |-> ""]

\* !current[key]
Falsy(v) ==
  \/ v.t \in {"undef", "null"}
  \/ v.t = "bool" /\ v.n = 0
  \/ v.t = "num" /\ v.n = 0
  \/ v.t = "str" /\ v.s = ""

\* The loop of deepDelete from `current` on and the delete after it: whether
\* a property was deleted, and the value of `current` afterwards.
RECURSIVE DeleteWalk(_, _)
DeleteWalk(current, keys) ==
  IF Len(keys) = 1
    THEN IF ~HasProp(current, keys[1]) THEN Kept(current)
         ELSE LET removed == DeleteProp(current, keys[1])
              IN [ok |-> removed.ok, deleted |-> removed.ok, v |-> removed.v,
                  err |-> removed.err]
  ELSE LET child == GetProp(current, Head(keys))
       IN IF Falsy(child) \/ ~IsObjectLike(child) THEN Kept(current)
          ELSE LET sub == DeleteWalk(child, Tail(keys))
               IN IF sub.ok /\ sub.deleted
                    THEN [sub EXCEPT !.v = SetProp(current, Head(keys), sub.v).v]
                    ELSE [sub EXCEPT !.v = current]

deepDelete(obj, keyPath) ==
  IF keyPath = <<>> THEN Kept(obj) ELSE DeleteWalk(obj, keyPath)

RECURSIVE Power(_, _)
Power(x, k) == IF k = 0 THEN 1 ELSE x * Power(x, k - 1)

Less(x, y) == x.n * y.d < y.n * x.d

\* The quotient x/y of two fractions rounded towards zero.
Trunc(x, y) ==
  LET p == x.n * y.d
      q == x.d * y.n
  IN IF (p < 0) = (q < 0) THEN Abs(p) \div Abs(q) ELSE -(Abs(p) \div Abs(q))

\* `existing` and `value` are numbers; the exponent of "**" is a natural number.
performMathOperation(existing, value, operation) ==
  CASE operation = "+" ->
         Success(Rat(existing.n * value.d + value.n * existing.d, existing.d * value.d))
    [] operation = "-" ->
         Success(Rat(existing.n * value.d - value.n * existing.d, existing.d * value.d))
    [] operation = "*" -> Success(Rat(existing.n * value.n, existing.d * value.d))
    [] operation = "/" ->
         IF value.n = 0 THEN Failure("DivisionByZero")
         ELSE Success(Rat(existing.n * value.d, existing.d * value.n))
    [] operation = "%" ->
         IF value.n = 0 THEN Failure("DivisionByZero")
         ELSE LET k == Trunc(existing, value)
              IN Success(Rat(existing.n * value.d - k * value.n * existing.d,
                             existing.d * value.d))
    [] operation = "**" ->
         Success(Rat(Power(existing.n, value.n), Power(existing.d, value.n)))
    [] operation = "min" -> Success(IF Less(value, existing) THEN value ELSE existing)
    [] operation = "max" -> Success(IF Less(existing, value) THEN value ELSE existing)
    [] OTHER -> Failure("InvalidOperation")

\* { ...x, ...y } for two plain objects.
Spread(x, y) ==
  Obj([k \in DOMAIN x.o \cup DOMAIN y.o |-> IF k \in DOMAIN y.o THEN y.o[k] ELSE x.o[k]])

(***************************************************************************)
(* The operations of Storage: what the callback passed to withLock does    *)
(* with the document `data` that readFile returned, up to its call of      *)
(* writeFile.  The result says what the callback returns or throws (out),  *)
(* whether it calls writeFile (write) and with which document (doc).       *)
(***************************************************************************)
Request(name, keyPath, value, operation, append, merge) ==
  [id |-> 0, op |-> name, key |-> keyPath, val |-> value, operation |-> operation,
   append |-> append, merge |-> merge]

CallGet(keyPath) == Request("get", keyPath, Null, "", FALSE, FALSE)

CallSet(keyPath, value) == Request("set", keyPath, value, "", FALSE, FALSE)

CallSetOp(keyPath, value, operation) == Request("set", keyPath, value, operation, FALSE, FALSE)

CallHas(keyPath) == Request("has", keyPath, Null, "", FALSE, FALSE)

CallDelete(keyPath) == Request("delete", keyPath, Null, "", FALSE, FALSE)

CallToggle(keyPath) == Request("toggle", keyPath, Null, "", FALSE, FALSE)

CallPush(keyPath, items) == Request("push", keyPath, Arr(items), "", FALSE, FALSE)

\* plus(key, amount) and divide(key, divisor) are set with an operation.
plus(keyPath, amount) == CallSetOp(keyPath, Num(amount), "+")

divide(keyPath, divisor) == CallSetOp(keyPath, Num(divisor), "/")

Return(val) == [out |-> Success(val), write |-> FALSE, doc |-> Undef]

Throw(e) == [out |-> Failure(e), write |-> FALSE, doc |-> Undef]

\* deepSet(data, key, value); await writeFile(data); return result
Store(set, result) ==
  IF set.ok THEN [out |-> Success(result), write |-> TRUE, doc |-> set.v]
  ELSE Throw(set.err)

get(data, req) == Return(deepGet(data, req.key, req.val))

\* Symbol('not-found'): every call makes a symbol equal to itself only; k
\* tells the calls apart.
Symbol(k) == [t |-> "sym", n |-> k, d |-> 1, s |-> "not-found", a |-> <<>>, o |-> NoFn]

\* deepGet(data, key, Symbol('not-found')) !== Symbol('not-found')
has(data, req) == Return(Bool(deepGet(data, req.key, Symbol(1)) # Symbol(2)))

delete(data, req) ==
  LET deleted == deepDelete(data, req.key)
  IN IF ~deleted.ok THEN Throw(deleted.err)
     ELSE IF deleted.deleted
       THEN [out |-> Success(Bool(TRUE)), write |-> TRUE, doc |-> deleted.v]
     ELSE Return(Bool(FALSE))

\* set that overwrites whatever the options are.
setOverwrite(data, req) == Store(deepSet(data, req.key, req.val), Undef)

set(data, req) ==
  LET existingValue == deepGet(data, req.key, Undef)
  IN IF existingValue.t = "num" /\ req.operation # ""
       THEN LET result == performMathOperation(existingValue, req.val, req.operation)
            IN IF result.ok THEN Store(deepSet(data, req.key, result.v), Undef)
               ELSE Throw(result.err)
     ELSE IF req.append /\ IsArray(existingValue) /\ IsArray(req.val)
       THEN Store(deepSet(data, req.key, Arr(existingValue.a \o req.val.a)), Undef)
     ELSE IF req.merge /\ isPlainObject(existingValue) /\ isPlainObject(req.val)
       THEN Store(deepSet(data, req.key, Spread(existingValue, req.val)), Undef)
     ELSE Store(deepSet(data, req.key, req.val), Undef)

\* toggle with the write before the type check.
toggleWriteFirst(data, req) ==
  LET currentValue == deepGet(data, req.key, Undef)
      stored == deepSet(data, req.key, Bool(currentValue.n = 0))
  IN IF currentValue.t # "bool"
       THEN [out |-> Failure("TypeMismatch"), write |-> stored.ok, doc |-> stored.v]
       ELSE Store(stored, Undef)

toggle(data, req) ==
  LET currentValue == deepGet(data, req.key, Undef)
  IN IF currentValue.t # "bool" THEN Throw("TypeMismatch")
     ELSE Store(deepSet(data, req.key, Bool(currentValue.n = 0)), Undef)

push(data, req) ==
  LET existingValue == deepGet(data, req.key, Arr(<<>>))
  IN IF ~IsArray(existingValue) THEN Throw("TypeMismatch")
     ELSE Store(deepSet(data, req.key, Arr(existingValue.a \o req.val.a)), Undef)

Body(data, req) ==
  CASE req.op = "get"    -> get(data, req)
    [] req.op = "set"    -> set(data, req)
    [] req.op = "toggle" -> toggle(data, req)
    [] req.op = "push"   -> push(data, req)
    [] req.op = "has"    -> has(data, req)
    [] req.op = "delete" -> delete(data, req)

(***************************************************************************)
(* State                                                                   *)
(***************************************************************************)
VARIABLES
  fs,        \* the directory: file name -> [exists, text]
  options,   \* the StorageOptions the instances were constructed with
  queue,     \* per instance: the callbacks chained on operationQueue, not yet run
  pc,        \* per instance: where the operation in flight stands
  cur,       \* per instance: the operation in flight: its request, the data
             \* readFile returned, what the callback does (res), the text read
             \* for the backup (raw), whether writeFile has written anything
  elapsed,   \* per instance: Date.now() - startTime while in acquireLock, in
             \* sleeps (0 outside acquireLock)
  hist,      \* per instance: the operations settled so far, with their outcomes
  closer,    \* per instance: the close() call, if any: where it stands (pc),
             \* how many operations were on operationQueue when it was made
             \* (upto), its outcome (out)
  cache,     \* CacheManager.cache: key -> the node it maps to (0: no entry)
  nodes,     \* the Node objects made so far: [key, value, size, prev, next,
             \* timestamp], prev and next being nodes or 0 for null
  head,      \* CacheManager.head (0: null)
  tail,      \* CacheManager.tail (0: null)
  currentSize, \* CacheManager.currentSize
  writeQueue,  \* CacheManager.writeQueue
  isWriting,   \* CacheManager.isWriting
  immediates,  \* the callbacks given to setImmediate, in the order they will run
  now,       \* Date.now()
  ttl,       \* CacheManager.ttl (0: not configured)
  seen,      \* what the callers of the cache have observed: the results of
             \* their gets, the entries evicted, the use order of the keys
  db,        \* the Storage with a document cache and batched writes
             \* (src/src/storage.ts): its fields, its init(), its timer, the
             \* calls in flight and the calls settled
  daily      \* the Storage with a daily backup (src/unnamed/part_001): the
             \* backup file's mtime, and per writeFile call in flight where
             \* it stands (pc) and the document it writes (data)

storeVars == <<fs, options, queue, pc, cur, elapsed, hist>>

cacheVars == <<cache, nodes, head, tail, currentSize, writeQueue, isWriting,
               immediates, now, ttl, seen, db, daily>>

vars == <<storeVars, closer, cacheVars>>

\* Two Storage instances opened on the same directory and database name.
Inst == {1, 2}

\* No close() call has been made.
NotClosing == [pc |-> "none", upto |-> 0, out |-> Success(Undef)]

\* The writeFile calls that may be in flight at once on the daily-backup
\* Storage, which has no lock and no queue.
Writers == {1, 2}

\* No daily-backup Storage is at work.
NoDaily == [mtime |-> 0, pc |-> [w \in Writers |-> "idle"],
            data |-> [w \in Writers |-> <<>>], writes |-> 0, overlap |-> FALSE]

\* No batched Storage has been constructed.
NoDb == [cacheLimit |-> 0, cache |-> Null, isBatching |-> FALSE, batchTimer |-> "none",
         init |-> "none", text |-> <<>>, ops |-> <<>>, done |-> <<>>,
         held |-> {}, mutations |-> 0]

\* The keys the callers of the cache use.
CacheKeys == {"A", "B", "C"}

\* Nothing observed yet: `order` is the keys of the live entries from the most
\* to the least recently put or read, `got` the result of the last get,
\* `evicted` the keys the last cleanup pass removed, `last` the key of the
\* entry the last processed put inserted, if it has not been removed by its
\* caller since, `calls` the number of calls made.
NothingSeen ==
  [order |-> <<>>,
   got |-> [key |-> "", hit |-> FALSE, value |-> Null, age |-> 0,
            present |-> FALSE, idle |-> 0],
   touched |-> [node |-> 0, at |-> 0],
   evicted |-> <<>>, expired |-> {}, last |-> "", calls |-> 0, pending |-> 0]

\* A CacheManager as its constructor leaves it, with the ttl option t.
NewCacheManager(t) ==
  /\ cache = [k \in CacheKeys |-> 0]
  /\ nodes = <<>>
  /\ head = 0
  /\ tail = 0
  /\ currentSize = 0
  /\ writeQueue = <<>>
  /\ isWriting = FALSE
  /\ immediates = <<>>
  /\ now = 0
  /\ ttl = t
  /\ seen = NothingSeen

\* Operations submitted in one run, over all instances.
MaxOps == 3

\* options.lockTimeout, counted in sleep(10) periods.
LockTimeout == 2

file == "primary"

lockFile == "lock"

backupFile == "backup"

\* The new document written straight to the primary file.
tempFileIsFile == "primary"

\* `${this.file}.tmp`
tempFile == "tmp"

NoFile == [exists |-> FALSE, text |-> <<>>]

File(text) == [exists |-> TRUE, text |-> text]

\* process.pid.toString(): what instance i writes into the lock file.
Pid(i) == <<Tok("num", i, 1, "")>>

Holds(i) == fs[lockFile].exists /\ fs[lockFile].text = Pid(i)

NoRequest == Request("none", <<>>, Null, "", FALSE, FALSE)

Idle == [req |-> NoRequest, data |-> Undef, res |-> Return(Undef), raw |-> <<>>,
         wrote |-> FALSE]

Settled(c) == [req |-> c.req, out |-> c.res.out, wrote |-> c.wrote]

Submitted(i) == Len(hist[i]) + Len(queue[i]) + (IF pc[i] = "idle" THEN 0 ELSE 1)

\* operationQueue is fulfilled: no operation settled yet, or the last one resolved.
ChainFulfilled(i) == IF hist[i] = <<>> THEN TRUE ELSE hist[i][Len(hist[i])].out.ok

(***************************************************************************)
(* withLock: chaining on operationQueue, acquireLock, releaseLock          *)
(***************************************************************************)
\* A queue served from its newest end.
DequeueLast(q) == [req |-> q[Len(q)], rest |-> SubSeq(q, 1, Len(q) - 1)]

\* operationQueue.then(...): the callback chained first runs first.
Dequeue(q) == [req |-> Head(q), rest |-> Tail(q)]

\* withLock(operation) is called: its callback is chained on operationQueue.
Submit(i, req, max) ==
  /\ pc[i] # "dead"
  /\ Submitted(1) + Submitted(2) < max
  /\ queue' = [queue EXCEPT ![i] = Append(@, [req EXCEPT !.id = Submitted(i) + 1])]
  /\ UNCHANGED <<fs, options, pc, cur, elapsed, hist, closer, cacheVars>>

\* The promise before this callback is fulfilled: the callback starts and
\* acquireLock takes startTime.
Begin(i) ==
  /\ pc[i] = "idle" /\ queue[i] # <<>> /\ ChainFulfilled(i)
  /\ cur' = [cur EXCEPT ![i] = [Idle EXCEPT !.req = Dequeue(queue[i]).req]]
  /\ queue' = [queue EXCEPT ![i] = Dequeue(queue[i]).rest]
  /\ pc' = [pc EXCEPT ![i] = "acq"]
  /\ elapsed' = [elapsed EXCEPT ![i] = 0]
  /\ UNCHANGED <<fs, options, hist, closer, cacheVars>>

\* The promise before this callback is rejected: then() has no rejection
\* handler, so the callback is not called and its promise is rejected with the
\* same error.
Skip(i) ==
  /\ pc[i] = "idle" /\ queue[i] # <<>> /\ ~ChainFulfilled(i)
  /\ hist' = [hist EXCEPT ![i] =
                Append(@, [req |-> Dequeue(queue[i]).req,
                           out |-> hist[i][Len(hist[i])].out,
                           wrote |-> FALSE])]
  /\ queue' = [queue EXCEPT ![i] = Dequeue(queue[i]).rest]
  /\ UNCHANGED <<fs, options, pc, cur, elapsed, closer, cacheVars>>

\* A loop that never gives up.
WithoutTimeout(e) == TRUE

\* while (Date.now() - startTime < this.options.lockTimeout)
WithinTimeout(e) == e < LockTimeout

\* The lock file written with flag 'w': an existing marker is overwritten.
CreateAlways(l, i) == [ok |-> TRUE, f |-> File(Pid(i))]

\* fs.writeFile(lockFile, pid, { flag: 'wx' }) by instance i when the lock
\* file is l: created if absent, EEXIST otherwise.
CreateExclusive(l, i) ==
  IF l.exists THEN [ok |-> FALSE, f |-> l] ELSE [ok |-> TRUE, f |-> File(Pid(i))]

\* A release that leaves the marker in place.
keepLock(l) == l

\* fs.unlink(lockFile), ENOENT ignored.
releaseLock(l) == NoFile

Acquire(i) ==
  /\ pc[i] = "acq" /\ WithinTimeout(elapsed[i])
  /\ CreateExclusive(fs[lockFile], i).ok
  /\ fs' = [fs EXCEPT ![lockFile] = CreateExclusive(fs[lockFile], i).f]
  /\ pc' = [pc EXCEPT ![i] = "read"]
  /\ elapsed' = [elapsed EXCEPT ![i] = 0]
  /\ UNCHANGED <<options, queue, cur, hist, closer, cacheVars>>

\* A sleep during which the clock stands still.
sleepNoTime(e) == e

\* await this.sleep(10): Date.now() - startTime is one period more.
sleep(e) == e + 1

\* EEXIST: sleep(10) and try again.
Backoff(i) ==
  /\ pc[i] = "acq" /\ WithinTimeout(elapsed[i])
  /\ ~CreateExclusive(fs[lockFile], i).ok
  /\ elapsed' = [elapsed EXCEPT ![i] = sleep(@)]
  /\ UNCHANGED <<fs, options, queue, pc, cur, hist, closer, cacheVars>>

\* 'Failed to acquire file lock within timeout': thrown before the try block,
\* so releaseLock is not called.
Timeout(i) ==
  /\ pc[i] = "acq" /\ ~WithinTimeout(elapsed[i])
  /\ hist' = [hist EXCEPT ![i] =
                Append(@, Settled([cur[i] EXCEPT !.res = Throw("LockTimeout")]))]
  /\ pc' = [pc EXCEPT ![i] = "idle"]
  /\ cur' = [cur EXCEPT ![i] = Idle]
  /\ elapsed' = [elapsed EXCEPT ![i] = 0]
  /\ UNCHANGED <<fs, options, queue, closer, cacheVars>>

\* finally: releaseLock, then the promise of withLock settles.
Release(i) ==
  /\ pc[i] = "rel"
  /\ fs' = [fs EXCEPT ![lockFile] = releaseLock(fs[lockFile])]
  /\ hist' = [hist EXCEPT ![i] = Append(@, Settled(cur[i]))]
  /\ pc' = [pc EXCEPT ![i] = "idle"]
  /\ cur' = [cur EXCEPT ![i] = Idle]
  /\ UNCHANGED <<options, queue, elapsed, closer, cacheVars>>

(***************************************************************************)
(* readFile and writeFile                                                  *)
(***************************************************************************)
\* The try block of readFile on the primary file f: the document, or that the
\* catch block goes on to the backup (recover).  ENOENT and, without the
\* backup option, any other failure give the empty document.
readPrimary(f, backup) ==
  IF ~f.exists THEN [recover |-> FALSE, data |-> EmptyObj]
  ELSE LET parsed == JSONparse(f.text)
       IN IF parsed.ok /\ parsed.v.t = "obj"
            THEN [recover |-> FALSE, data |-> parsed.v]
            ELSE [recover |-> backup, data |-> EmptyObj]

\* A readFile that never looks at the backup.
readBackupNever(b) == EmptyObj

\* return JSON.parse(backupData), or {} when reading or parsing it throws.
readBackup(b) ==
  IF ~b.exists THEN EmptyObj
  ELSE IF JSONparse(b.text).ok THEN JSONparse(b.text).v ELSE EmptyObj

\* The callback runs on `data` up to its call of writeFile, its return or its
\* throw.
Run(i, data) ==
  LET res == Body(data, cur[i].req)
  IN /\ cur' = [cur EXCEPT ![i].data = data, ![i].res = res]
     /\ pc' = [pc EXCEPT ![i] =
                 IF ~res.write THEN "rel"
                 ELSE IF options.backup THEN "bk_read" ELSE "tmp_open"]

ReadPrimary(i) ==
  /\ pc[i] = "read"
  /\ LET r == readPrimary(fs[file], options.backup)
     IN IF r.recover
          THEN /\ pc' = [pc EXCEPT ![i] = "readbk"]
               /\ UNCHANGED cur
          ELSE Run(i, r.data)
  /\ UNCHANGED <<fs, options, queue, elapsed, hist, closer, cacheVars>>

ReadBackup(i) ==
  /\ pc[i] = "readbk"
  /\ Run(i, readBackup(fs[backupFile]))
  /\ UNCHANGED <<fs, options, queue, elapsed, hist, closer, cacheVars>>

\* writeFile with options.backup: const currentData = await fs.readFile(file);
\* a failure skips the backup.
BackupRead(i) ==
  /\ pc[i] = "bk_read"
  /\ IF fs[file].exists
       THEN /\ cur' = [cur EXCEPT ![i].raw = fs[file].text]
            /\ pc' = [pc EXCEPT ![i] = "bk_open"]
       ELSE /\ pc' = [pc EXCEPT ![i] = "tmp_open"]
            /\ UNCHANGED cur
  /\ UNCHANGED <<fs, options, queue, elapsed, hist, closer, cacheVars>>

\* fs.writeFile(path, text) opens the file truncating it, then writes.
OpenTruncate(i, path, next) ==
  /\ fs' = [fs EXCEPT ![path] = File(<<>>)]
  /\ cur' = [cur EXCEPT ![i].wrote = TRUE]
  /\ pc' = [pc EXCEPT ![i] = next]
  /\ UNCHANGED <<options, queue, elapsed, hist, closer, cacheVars>>

WriteAll(i, path, text, next) ==
  /\ fs' = [fs EXCEPT ![path] = File(text)]
  /\ pc' = [pc EXCEPT ![i] = next]
  /\ UNCHANGED <<options, queue, cur, elapsed, hist, closer, cacheVars>>

BackupOpen(i) == pc[i] = "bk_open" /\ OpenTruncate(i, backupFile, "bk_write")

BackupWrite(i) == pc[i] = "bk_write" /\ WriteAll(i, backupFile, cur[i].raw, "tmp_open")

TmpOpen(i) == pc[i] = "tmp_open" /\ OpenTruncate(i, tempFile, "tmp_write")

TmpWrite(i) ==
  pc[i] = "tmp_write" /\ WriteAll(i, tempFile, Stringify(cur[i].res.doc), "rename")

\* fs.rename(tempFile, file): ENOENT when the temporary file is gone.
Rename(i) ==
  /\ pc[i] = "rename"
  /\ IF fs[tempFile].exists
       THEN /\ fs' = [n \in DOMAIN fs |->
                        IF n = file THEN fs[tempFile]
                        ELSE IF n = tempFile THEN NoFile ELSE fs[n]]
            /\ UNCHANGED cur
       ELSE /\ cur' = [cur EXCEPT ![i].res = Throw("ENOENT")]
            /\ UNCHANGED fs
  /\ pc' = [pc EXCEPT ![i] = "rel"]
  /\ UNCHANGED <<options, queue, elapsed, hist, closer, cacheVars>>

(***************************************************************************)
(* The store in normal operation: two instances, no crash, no corruption   *)
(***************************************************************************)
\* Documents the primary file holds when the instances are constructed.
InitDocs == { Obj([a |-> Num(1), b |-> Bool(FALSE)]) }

\* The calls the callers make.
Calls ==
  { CallSet(<<"a">>, Num(2)),
    CallSet(<<"b">>, Num(1)),
    divide(<<"a">>, 0),
    CallGet(<<"a">>),
    CallToggle(<<"b">>),
    CallPush(<<"b">>, <<Num(2)>>) }

InitWith(docs, backups) ==
  /\ \E d \in docs :
       fs = [n \in {file, lockFile, backupFile, tempFile} |->
               IF n = file THEN File(Stringify(d)) ELSE NoFile]
  /\ options \in [backup : backups]
  /\ queue = [i \in Inst |-> <<>>]
  /\ pc = [i \in Inst |-> "idle"]
  /\ cur = [i \in Inst |-> Idle]
  /\ elapsed = [i \in Inst |-> 0]
  /\ hist = [i \in Inst |-> <<>>]
  /\ closer = [i \in Inst |-> NotClosing]
  /\ db = NoDb /\ daily = NoDaily
  /\ NewCacheManager(0)

Init == InitWith(InitDocs, {FALSE})

Step(i) ==
  \/ Begin(i) \/ Skip(i) \/ Acquire(i) \/ Backoff(i) \/ Timeout(i)
  \/ ReadPrimary(i) \/ TmpOpen(i) \/ TmpWrite(i) \/ Rename(i) \/ Release(i)

Next ==
  \E i \in Inst :
    \/ \E req \in Calls : Submit(i, req, MaxOps)
    \/ Step(i)

Spec == Init /\ [][Next]_vars

(***************************************************************************)
(* Properties of the store in normal operation                             *)
(***************************************************************************)
\* Between the creation of the lock file and its removal.
InCritical(i) ==
  pc[i] \in {"read", "readbk", "bk_read", "bk_open", "bk_write",
             "tmp_open", "tmp_write", "rename", "rel"}

IsPlainSet(req) == req.op = "set" /\ req.operation = "" /\ ~req.append /\ ~req.merge

Quiet(i) == pc[i] = "idle" /\ queue[i] = <<>>

\* The document in the primary file.
Document == JSONparse(fs[file].text).v

\* C1: two instances on the same file never overlap their critical sections:
\* an instance between acquire and release holds the lock marker, no two
\* instances are there together, and when each instance has run one plain set,
\* on two different top-level keys, and both have resolved, the primary file
\* holds both values.
C1_LockExclusion ==
  /\ \A i \in Inst : InCritical(i) => Holds(i)
  /\ \A i, j \in Inst : i # j => ~(InCritical(i) /\ InCritical(j))
  /\ \A i, j \in Inst :
       ( /\ i # j /\ Quiet(i) /\ Quiet(j)
         /\ Len(hist[i]) = 1 /\ Len(hist[j]) = 1
         /\ IsPlainSet(hist[i][1].req) /\ IsPlainSet(hist[j][1].req)
         /\ hist[i][1].out.ok /\ hist[j][1].out.ok
         /\ Len(hist[i][1].req.key) = 1 /\ Len(hist[j][1].req.key) = 1
         /\ hist[i][1].req.key # hist[j][1].req.key )
       => /\ deepGet(Document, hist[i][1].req.key, Null) = hist[i][1].req.val
          /\ deepGet(Document, hist[j][1].req.key, Null) = hist[j][1].req.val

\* One instance is about to rename its new document into place while the
\* other instance's set has already found the lock taken.
C1_Witness ==
  /\ pc[1] = "rename" /\ IsPlainSet(cur[1].req)
  /\ pc[2] = "acq" /\ elapsed[2] > 0 /\ IsPlainSet(cur[2].req)
  /\ cur[1].req.key # cur[2].req.key

\* C2: on one instance the operations run in the order they were submitted,
\* one at a time: the k-th operation to settle is the k-th submitted, the one
\* in flight is the next, the queued ones follow in order; and when no other
\* instance is active, a get submitted after a plain set of the same path,
\* with nothing but fulfilled gets in between, returns the value that was set.
C2_Fifo ==
  \A i \in Inst :
    /\ \A k \in DOMAIN hist[i] : hist[i][k].req.id = k
    /\ pc[i] # "idle" => cur[i].req.id = Len(hist[i]) + 1
    /\ \A k \in DOMAIN queue[i] :
         queue[i][k].id = Len(hist[i]) + (IF pc[i] = "idle" THEN 0 ELSE 1) + k
    /\ \A j \in Inst \ {i} : \A k, s \in DOMAIN hist[i] :
         ( /\ Submitted(j) = 0 /\ s < k
           /\ hist[i][k].req.op = "get"
           /\ IsPlainSet(hist[i][s].req) /\ hist[i][s].out.ok
           /\ hist[i][s].req.key = hist[i][k].req.key
           /\ \A m \in (s + 1) .. (k - 1) :
                hist[i][m].req.op = "get" /\ hist[i][m].out.ok )
         => hist[i][k].out = Success(hist[i][s].req.val)

\* A get is queued behind a set and another call while the set is in flight.
C2_Witness ==
  /\ pc[1] = "rename" /\ IsPlainSet(cur[1].req)
  /\ Len(queue[1]) = 2
  /\ queue[1][1].op = "get" /\ queue[1][1].key = cur[1].req.key

\* C3: a failure is delivered to its own caller only: a get submitted after
\* an operation that failed still runs and returns a value (it can fail only
\* with a LockTimeout of its own).
C3_FailureIsOwn ==
  \A i \in Inst : \A k \in DOMAIN hist[i] :
    (k > 1 /\ ~hist[i][k - 1].out.ok /\ hist[i][k].req.op = "get")
    => (hist[i][k].out.ok \/ hist[i][k].out.err = "LockTimeout")

\* C4: an operation that fails with TypeMismatch, InvalidOperation,
\* DivisionByZero or LockTimeout has written nothing: neither the backup, nor
\* the temporary file, nor the primary file.
C4_FailureWritesNothing ==
  \A i \in Inst :
    /\ \A k \in DOMAIN hist[i] :
         hist[i][k].out.err \in {"TypeMismatch", "InvalidOperation",
                                 "DivisionByZero", "LockTimeout"}
         => ~hist[i][k].wrote
    /\ cur[i].res.out.err \in {"TypeMismatch", "InvalidOperation", "DivisionByZero"}
       => (~cur[i].wrote /\ ~cur[i].res.write)

\* A toggle of a path that holds no boolean has failed.
C4_Witness ==
  \E i \in Inst : \E k \in DOMAIN hist[i] :
    /\ hist[i][k].req.op = "toggle" /\ hist[i][k].out.err = "TypeMismatch"
    /\ k > 1 => hist[i][k - 1].out.ok

StepOf(i) == pc'[i] # pc[i] \/ elapsed'[i] # elapsed[i] \/ hist'[i] # hist[i]

\* C9: once the lock marker has been there for the whole lockTimeout window,
\* the only thing the waiting operation does is fail with LockTimeout, without
\* running its body and without touching any file, the marker included.
C9_LockTimeout ==
  [][\A i \in Inst :
       (pc[i] = "acq" /\ elapsed[i] >= LockTimeout /\ StepOf(i))
       => /\ hist'[i] = Append(hist[i], [req |-> cur[i].req,
                                         out |-> Failure("LockTimeout"),
                                         wrote |-> FALSE])
          /\ pc'[i] = "idle"
          /\ fs' = fs]_vars

\* An operation has timed out and the other instance still holds the marker.
C9_Witness ==
  \E i, j \in Inst :
    /\ hist[i] # <<>> /\ hist[i][Len(hist[i])].out.err = "LockTimeout"
    /\ Len(hist[i]) = 1
    /\ Holds(j) /\ InCritical(j)

\* C10: an instance holds the lock marker only while an operation of it is
\* between acquire and release: once the operation has settled, by returning
\* or by throwing, the marker it created is gone.
C10_LockReleased ==
  \A i \in Inst : Holds(i) => InCritical(i)

\* An operation that threw under the lock has settled and no marker is left.
C10_Witness ==
  \E i \in Inst :
    /\ pc[i] = "idle" /\ Len(hist[i]) = 1
    /\ hist[i][1].out.err = "DivisionByZero"
    /\ ~fs[lockFile].exists

(***************************************************************************)
(* The store when a process can be killed                                  *)
(***************************************************************************)
Prefixes(text) == { SubSeq(text, 1, k) : k \in 0 .. Len(text) - 1 }

\* The process of instance i is killed while an operation of it is in flight.
\* Nothing of it runs afterwards; a write that was under way has put only a
\* part of its text into the file it had opened.
Crash(i) ==
  /\ pc[i] \notin {"idle", "dead"}
  /\ IF pc[i] = "tmp_write"
       THEN \E part \in Prefixes(Stringify(cur[i].res.doc)) :
              fs' = [fs EXCEPT ![tempFile] = File(part)]
       ELSE IF pc[i] = "bk_write"
         THEN \E part \in Prefixes(cur[i].raw) :
                fs' = [fs EXCEPT ![backupFile] = File(part)]
         ELSE UNCHANGED fs
  /\ pc' = [pc EXCEPT ![i] = "dead"]
  /\ queue' = [queue EXCEPT ![i] = <<>>]
  /\ cur' = [cur EXCEPT ![i] = Idle]
  /\ UNCHANGED <<options, elapsed, hist, closer, cacheVars>>

MaxCrashOps == 3

CrashCalls ==
  { CallSet(<<"a">>, Num(2)),
    CallPush(<<"b">>, <<Num(2)>>),
    CallGet(<<"a">>) }

CrashDocs == { Obj([a |-> Num(1)]) }

InitCrash == InitWith(CrashDocs, BOOLEAN)

NextCrash ==
  \E i \in Inst :
    \/ \E req \in CrashCalls : Submit(i, req, MaxCrashOps)
    \/ Step(i)
    \/ BackupRead(i) \/ BackupOpen(i) \/ BackupWrite(i)
    \/ Crash(i)

SpecCrash == InitCrash /\ [][NextCrash]_vars

IsDocument(f) ==
  f.exists /\ JSONparse(f.text).ok /\ JSONparse(f.text).v.t = "obj"

RoundTripDocs ==
  { EmptyObj,
    Obj([a |-> Num(1)]),
    Obj([a |-> Obj([b |-> Bool(FALSE)])]),
    Obj([a |-> Arr(<<Num(1), Num(2)>>), b |-> Str("s")]),
    Obj([a |-> Null, b |-> Arr(<<Obj([a |-> Num(1)])>>)]),
    Obj([a |-> Obj([b |-> Obj([a |-> Num(0)])]), b |-> EmptyObj]) }

RoundTripPaths ==
  { <<"a">>, <<"a", "b">>, <<"b", "0">>, <<"a", "b", "a">>, <<"__proto__">> }

RoundTripValues ==
  { Null, Bool(TRUE), Bool(FALSE), Num(0), Rat(-3, 2), Str(""), Str("x"),
    Arr(<<>>), Arr(<<Num(1), Null>>), EmptyObj,
    Obj([a |-> Arr(<<Obj([b |-> Null])>>), b |-> Str("a")]) }

\* The caller calls set(p, v) and then get(p).
SetThenGet(i, p, v) ==
  /\ Submitted(i) = 0
  /\ queue' = [queue EXCEPT ![i] =
                 << [CallSet(p, v) EXCEPT !.id = 1], [CallGet(p) EXCEPT !.id = 2] >>]
  /\ UNCHANGED <<fs, options, pc, cur, elapsed, hist, closer, cacheVars>>

InitRoundTrip == InitWith(RoundTripDocs, {FALSE})

NextRoundTrip ==
  \/ \E p \in RoundTripPaths : \E v \in RoundTripValues : SetThenGet(1, p, v)
  \/ Begin(1) \/ Acquire(1) \/ ReadPrimary(1)
  \/ TmpOpen(1) \/ TmpWrite(1) \/ Rename(1) \/ Release(1)

SpecRoundTrip == InitRoundTrip /\ [][NextRoundTrip]_vars

\* Deep equality of two values: a prototype object has no own enumerable
\* property, so it compares as an empty object or an empty array.
DeepEqual(x, y) ==
  LET own(v) == IF v.t # "proto" THEN v
                ELSE IF v.s = "Array" THEN Arr(<<>>) ELSE EmptyObj
  IN own(x) = own(y)

\* C6: set(p, v) without options followed by get(p) on the same instance,
\* nothing in between: the set resolves and the get returns a value deep-equal
\* to v, whatever document the file held.
C6_RoundTrip ==
  ( /\ Len(hist[1]) = 2
    /\ IsPlainSet(hist[1][1].req) /\ hist[1][2].req.op = "get"
    /\ hist[1][1].req.key = hist[1][2].req.key )
  => /\ hist[1][1].out.ok
     /\ hist[1][2].out.ok
     /\ DeepEqual(hist[1][2].out.v, hist[1][1].req.val)

\* C6 for the paths none of whose segments names an inherited property.
C6_RoundTripOwnNames ==
  ( /\ Len(hist[1]) = 2
    /\ IsPlainSet(hist[1][1].req) /\ hist[1][2].req.op = "get"
    /\ hist[1][1].req.key = hist[1][2].req.key
    /\ \A k \in DOMAIN hist[1][1].req.key : hist[1][1].req.key[k] # "__proto__" )
  => /\ hist[1][1].out.ok
     /\ hist[1][2].out = Success(hist[1][1].req.val)

\* A falsy value was set below a segment that held an array, and read back.
C6_Witness ==
  /\ Len(hist[1]) = 2
  /\ hist[1][2].req.key = <<"b", "0">>
  /\ hist[1][2].out = Success(Num(0))
  /\ deepGet(Document, <<"a">>, Undef) = Null

(***************************************************************************)
(* The store when the primary file gets corrupted                          *)
(***************************************************************************)
BackupDoc == Obj([a |-> Num(1)])

\* Texts that are no JSON object: not JSON at all, empty, cut short, or JSON
\* of another type.
UnusableTexts ==
  { Garbage, <<>>, SubSeq(Stringify(BackupDoc), 1, 3),
    Stringify(Arr(<<Num(1)>>)), Stringify(Null) }

\* Something outside the store overwrites the primary file.
Corrupt(text) ==
  /\ fs[file].text # text
  /\ fs' = [fs EXCEPT ![file] = File(text)]
  /\ UNCHANGED <<options, queue, pc, cur, elapsed, hist, closer, cacheVars>>

MaxRecoverOps == 3

RecoverCalls == { CallGet(<<"a">>), CallSet(<<"b">>, Num(3)) }

InitRecover ==
  /\ \E primary \in {NoFile, File(Stringify(Obj([a |-> Num(2)])))}
                      \cup { File(x) : x \in UnusableTexts } :
       \E backup \in {NoFile, File(Stringify(BackupDoc))} :
         fs = [n \in {file, lockFile, backupFile, tempFile} |->
                 IF n = file THEN primary ELSE IF n = backupFile THEN backup ELSE NoFile]
  /\ options \in [backup : BOOLEAN]
  /\ queue = [i \in Inst |-> <<>>]
  /\ pc = [i \in Inst |-> "idle"]
  /\ cur = [i \in Inst |-> Idle]
  /\ elapsed = [i \in Inst |-> 0]
  /\ hist = [i \in Inst |-> <<>>]
  /\ closer = [i \in Inst |-> NotClosing]
  /\ db = NoDb /\ daily = NoDaily
  /\ NewCacheManager(0)

NextRecover ==
  \/ \E req \in RecoverCalls : Submit(1, req, MaxRecoverOps)
  \/ \E text \in UnusableTexts : Corrupt(text)
  \/ Begin(1) \/ Skip(1) \/ Acquire(1) \/ ReadPrimary(1) \/ ReadBackup(1)
  \/ BackupRead(1) \/ BackupOpen(1) \/ BackupWrite(1)
  \/ TmpOpen(1) \/ TmpWrite(1) \/ Rename(1) \/ Release(1)

SpecRecover == InitRecover /\ [][NextRecover]_vars

Unusable(f) == f.exists /\ ~IsDocument(f)

\* C7: with the backup option, when the primary file holds no JSON object,
\* readFile goes on to the backup file; when that holds the JSON object B, a
\* get is evaluated against B and returns normally.
C7_RecoverFromBackup ==
  [][\A i \in Inst :
       /\ (pc[i] = "read" /\ pc'[i] # "read" /\ options.backup /\ Unusable(fs[file]))
          => pc'[i] = "readbk"
       /\ ( /\ pc[i] = "readbk" /\ pc'[i] # "readbk"
            /\ cur[i].req.op = "get" /\ IsDocument(fs[backupFile]) )
          => /\ pc'[i] = "rel"
             /\ cur'[i].res.out =
                  Success(deepGet(JSONparse(fs[backupFile].text).v,
                                  cur[i].req.key, Null)) ]_vars

\* The primary file is corrupt, the backup holds {"a": 1}, and get("a") has
\* come back with 1.
C7_Witness ==
  /\ options.backup
  /\ ~JSONparse(fs[file].text).ok
  /\ fs[backupFile] = File(Stringify(BackupDoc))
  /\ hist[1] # <<>>
  /\ hist[1][Len(hist[1])].req.op = "get"
  /\ hist[1][Len(hist[1])].out = Success(Num(1))

\* C8: whatever the primary file and the backup hold, readFile yields a JSON
\* object and the operation does not fail.
C8_ReadYieldsObject ==
  \A i \in Inst :
    pc[i] \in {"bk_read", "bk_open", "bk_write", "tmp_open", "tmp_write",
               "rename", "rel"}
    => (cur[i].data.t = "obj" /\ cur[i].res.out.ok)

\* The store puts a new primary file in place.
WritesPrimary(i) == pc[i] = "rename" /\ pc'[i] = "rel" /\ fs[tempFile].exists

\* C28: every document the store writes to the primary file is a JSON object
\* at the root, also after a recovery from the backup file.
C28_WritesObject ==
  [][\A i \in Inst : WritesPrimary(i) => IsDocument(fs'[file])]_vars

\* What does hold: it is so without the backup option.
C28_WritesObjectWithoutBackup ==
  [][\A i \in Inst : (WritesPrimary(i) /\ ~options.backup) => IsDocument(fs'[file])]_vars

\* writeFile has copied the primary file's content to the backup file.
WritesBackup(i) == pc[i] = "bk_write" /\ pc'[i] = "tmp_open"

\* C29: with the backup option, what the store writes to the backup file is
\* a JSON object; corrupted primary content never gets there.
C29_BackupIsGood ==
  [][\A i \in Inst : WritesBackup(i) => IsDocument(fs'[backupFile])]_vars

\* What does hold: the backup written is a JSON object when the primary file
\* held one as writeFile read it.
C29_BackupOfGoodPrimary ==
  [][\A i \in Inst :
       (WritesBackup(i) /\ IsDocument(File(cur[i].raw))) => IsDocument(fs'[backupFile])]_vars

(***************************************************************************)
(* close()                                                                 *)
(***************************************************************************)
\* A close() that does not wait for operationQueue.
AwaitedAtOnce(i) == TRUE

\* `await this.operationQueue`: the promise that was operationQueue when
\* close() was called has settled, i.e. the operations chained before the call
\* have all settled.
Awaited(i) == Len(hist[i]) >= closer[i].upto

\* The caller calls close(): it reads this.operationQueue and awaits it.
close(i) ==
  /\ pc[i] # "dead"
  /\ closer[i].pc = "none"
  /\ closer' = [closer EXCEPT ![i] = [pc |-> "await", upto |-> Submitted(i),
                                      out |-> Success(Undef)]]
  /\ UNCHANGED <<storeVars, cacheVars>>

\* The awaited promise has settled: fulfilled, close goes on to releaseLock;
\* rejected, the await throws and close rejects with the same error.
CloseAwait(i) ==
  /\ closer[i].pc = "await"
  /\ Awaited(i)
  /\ IF \E k \in DOMAIN hist[i] : k = closer[i].upto /\ ~hist[i][k].out.ok
       THEN closer' = [closer EXCEPT ![i].pc = "closed",
                                     ![i].out = hist[i][closer[i].upto].out]
       ELSE closer' = [closer EXCEPT ![i].pc = "unlink"]
  /\ UNCHANGED <<storeVars, cacheVars>>

\* releaseLock in close: the lock file is unlinked, whoever made it.
CloseUnlink(i) ==
  /\ closer[i].pc = "unlink"
  /\ fs' = [fs EXCEPT ![lockFile] = releaseLock(fs[lockFile])]
  /\ closer' = [closer EXCEPT ![i].pc = "closed"]
  /\ UNCHANGED <<options, queue, pc, cur, elapsed, hist, cacheVars>>

\* Operations submitted in one run with close(), over all instances.
MaxCloseOps == 2

CloseCalls == { CallSet(<<"a">>, Num(2)), divide(<<"a">>, 0) }

NextClose ==
  \E i \in Inst :
    \/ \E req \in CloseCalls : Submit(i, req, MaxCloseOps)
    \/ Step(i)
    \/ close(i) \/ CloseAwait(i) \/ CloseUnlink(i)

SpecClose == Init /\ [][NextClose]_vars

\* C11: close() completes, by resolving or by rejecting, only when every
\* operation submitted on the instance before it has settled, and at that
\* moment the lock file, if there is one, is not the instance's.
C11_CloseAfterOperations ==
  [][\A i \in Inst :
       (closer[i].pc # "closed" /\ closer'[i].pc = "closed")
       => /\ Len(hist[i]) >= closer[i].upto
          /\ \A k \in 1 .. closer[i].upto : hist[i][k].req.id = k
          /\ ~(fs'[lockFile].exists /\ fs'[lockFile].text = Pid(i)) ]_vars

\* close() was called with two operations pending, one of which went on to
\* write, and has resolved.
C11_Witness ==
  \E i \in Inst :
    /\ closer[i].pc = "closed" /\ closer[i].out.ok /\ closer[i].upto = 2
    /\ \E k \in 1 .. 2 : hist[i][k].wrote

\* C37: close() on one instance never deletes the lock file another instance
\* holds: when the releaseLock of i's close() runs while the lock file is
\* j's, the lock file is still j's afterwards.
C37_CloseSparesOthers ==
  [][\A i \in Inst : \A j \in Inst \ {i} :
       (closer[i].pc = "unlink" /\ closer'[i].pc = "closed" /\ Holds(j))
       => (fs'[lockFile].exists /\ fs'[lockFile].text = Pid(j)) ]_vars

\* The releaseLock of close() leaves alone every file but the lock file.
C37_CloseUnlinksLockOnly ==
  [][\A i \in Inst :
       (closer[i].pc = "unlink" /\ closer'[i].pc = "closed")
       => \A f \in DOMAIN fs \ {lockFile} : fs'[f] = fs[f] ]_vars

(***************************************************************************)
(* set with options, on one instance                                       *)
(***************************************************************************)
\* Documents whose property a is a number, an array, a plain object, a string
\* or absent.
SetDocs ==
  { Obj([a |-> Num(6), b |-> Num(1)]),
    Obj([a |-> Arr(<<Num(1)>>)]),
    Obj([a |-> Obj([a |-> Num(1), b |-> Num(2)])]),
    Obj([a |-> Str("s")]),
    Obj([b |-> Num(1)]) }

\* The operators performMathOperation knows.
Operators == {"+", "-", "*", "/", "%", "**", "min", "max"}

\* set("a", value, options): an operation comes with a number as its operand.
SetCalls ==
  { Request("set", <<"a">>, v, op, both, both) :
      v \in {Num(0), Num(4)}, op \in {"+", "/", "%", "^"}, both \in BOOLEAN }
  \cup
  { Request("set", <<"a">>, v, "", append, merge) :
      v \in {Arr(<<Num(2)>>), Obj([b |-> Num(3)])}, append \in BOOLEAN,
      merge \in BOOLEAN }
  \cup
  { CallSet(<<"a">>, Num(4)) }

\* Sets made in one run.
MaxSetOps == 2

InitSet == InitWith(SetDocs, {FALSE})

NextSet ==
  \/ \E req \in SetCalls : Submit(1, req, MaxSetOps)
  \/ Begin(1) \/ Skip(1) \/ Acquire(1) \/ ReadPrimary(1)
  \/ TmpOpen(1) \/ TmpWrite(1) \/ Rename(1) \/ Release(1)

SpecSet == InitSet /\ [][NextSet]_vars

\* The value that set is to store over the existing value e, or the failure,
\* by the four rules in their order.
SetRule(e, req) ==
  IF e.t = "num" /\ req.operation # ""
    THEN IF req.operation \notin Operators THEN Failure("InvalidOperation")
         ELSE IF req.operation \in {"/", "%"} /\ req.val = Num(0)
           THEN Failure("DivisionByZero")
         ELSE performMathOperation(e, req.val, req.operation)
  ELSE IF req.append /\ e.t = "arr" /\ req.val.t = "arr"
    THEN Success(Arr(e.a \o req.val.a))
  ELSE IF req.merge /\ e.t = "obj" /\ req.val.t = "obj"
    THEN Success(Obj([k \in DOMAIN e.o \cup DOMAIN req.val.o |->
                        IF k \in DOMAIN req.val.o THEN req.val.o[k] ELSE e.o[k]]))
  ELSE Success(req.val)

\* A division or a remainder by zero: divide(p, 0), or set with operation "/"
\* or "%" and the operand 0.
ByZero(req) ==
  /\ req.op = "set"
  /\ req.val = Num(0)
  /\ \/ req.operation = "%"
     \/ [req EXCEPT !.append = FALSE, !.merge = FALSE, !.id = 0] = divide(req.key, 0)

\* C27: a division or a remainder by zero fails with DivisionByZero and
\* leaves the document as it was, whatever the path holds.
C27_DivisionByZero ==
  \A i \in Inst :
    (pc[i] = "rel" /\ ByZero(cur[i].req))
    => /\ cur[i].res.out = Failure("DivisionByZero")
       /\ Document = cur[i].data

\* What does hold: it fails so when the path holds a number.
C27_DivisionByZeroOfNumber ==
  \A i \in Inst :
    (pc[i] = "rel" /\ ByZero(cur[i].req)
     /\ deepGet(cur[i].data, cur[i].req.key, Undef).t = "num")
    => /\ cur[i].res.out = Failure("DivisionByZero")
       /\ Document = cur[i].data

\* A call of plus, minus, multiply, divide, min or max: set with the
\* helper's operation and nothing else.
IsNumericHelper(req) ==
  /\ req.op = "set" /\ ~req.append /\ ~req.merge
  /\ req.operation \in {"+", "-", "*", "/", "min", "max"}

\* C35: a numeric helper applied to a path that holds a value that is no
\* number fails and leaves the document as it was.
C35_NumericOnly ==
  \A i \in Inst :
    (pc[i] = "rel" /\ IsNumericHelper(cur[i].req)
     /\ deepGet(cur[i].data, cur[i].req.key, Undef).t \in {"str", "bool", "arr", "obj"})
    => /\ ~cur[i].res.out.ok
       /\ Document = cur[i].data

\* What does hold: applied to a number, a helper that resolves has stored a
\* number.
C35_NumericOfNumber ==
  \A i \in Inst :
    (pc[i] = "rel" /\ IsNumericHelper(cur[i].req) /\ cur[i].res.out.ok
     /\ deepGet(cur[i].data, cur[i].req.key, Undef).t = "num")
    => deepGet(Document, cur[i].req.key, Undef).t = "num"

\* C18: when a set has run, it has failed with the failure of the rule that
\* applies to the existing value and left the document as it was, or it has
\* resolved and the document is the one read with the value of that rule
\* stored at the path.
C18_SetRules ==
  \A i \in Inst :
    (pc[i] = "rel" /\ cur[i].req.op = "set")
    => LET rule == SetRule(deepGet(cur[i].data, cur[i].req.key, Undef), cur[i].req)
       IN IF rule.ok
            THEN /\ cur[i].res.out.ok
                 /\ Document = deepSet(cur[i].data, cur[i].req.key, rule.v).v
            ELSE /\ cur[i].res.out = Failure(rule.err)
                 /\ Document = cur[i].data

\* A set with an operation, append and merge on a number has stored the sum;
\* one with append and merge on an array has stored the concatenation.
C18_Witness ==
  /\ pc[1] = "rel" /\ cur[1].req.op = "set"
  /\ cur[1].req.append /\ cur[1].req.merge
  /\ \/ /\ cur[1].req.operation = "+"
        /\ deepGet(cur[1].data, <<"a">>, Undef) = Num(6)
        /\ deepGet(Document, <<"a">>, Undef) = Num(10)
     \/ /\ deepGet(cur[1].data, <<"a">>, Undef) = Arr(<<Num(1)>>)
        /\ deepGet(Document, <<"a">>, Undef) = Arr(<<Num(1), Num(2)>>)

(***************************************************************************)
(* toggle, on one instance                                                 *)
(***************************************************************************)
ToggleDocs ==
  { Obj([a |-> Bool(TRUE), b |-> Arr(<<Bool(FALSE), Num(1)>>)]),
    Obj([a |-> Obj([b |-> Bool(FALSE)]), b |-> Str("x")]),
    Obj([a |-> Num(0), b |-> Null]),
    EmptyObj }

TogglePaths == { <<"a">>, <<"b">>, <<"a", "b">>, <<"b", "0">> }

\* Toggles made in one run.
MaxToggleOps == 2

InitToggle == InitWith(ToggleDocs, {FALSE})

NextToggle ==
  \/ \E keyPath \in TogglePaths : Submit(1, CallToggle(keyPath), MaxToggleOps)
  \/ Begin(1) \/ Skip(1) \/ Acquire(1) \/ ReadPrimary(1)
  \/ TmpOpen(1) \/ TmpWrite(1) \/ Rename(1) \/ Release(1)

SpecToggle == InitToggle /\ [][NextToggle]_vars

\* The value v with the value at keys, a path that exists in v, replaced by w
\* and nothing else changed.
RECURSIVE Replaced(_, _, _)
Replaced(v, keys, w) ==
  IF keys = <<>> THEN w
  ELSE IF v.t = "obj"
    THEN Obj([k \in DOMAIN v.o |->
                IF k = Head(keys) THEN Replaced(v.o[k], Tail(keys), w) ELSE v.o[k]])
  ELSE Arr([k \in DOMAIN v.a |->
              IF k = IndexOf(Head(keys)) + 1 THEN Replaced(v.a[k], Tail(keys), w)
              ELSE v.a[k]])

\* A toggle of keyPath has run on the document it read: on a boolean it has
\* resolved and the document is the one read with the negation in the place
\* of the boolean; on anything else it has failed with TypeMismatch, written
\* nothing and left the document as it was.
Toggled(i) ==
  LET existing == deepGet(cur[i].data, cur[i].req.key, Undef)
  IN IF existing.t = "bool"
       THEN /\ cur[i].res.out.ok
            /\ Document = Replaced(cur[i].data, cur[i].req.key,
                                   Bool(existing = Bool(FALSE)))
       ELSE /\ cur[i].res.out = Failure("TypeMismatch")
            /\ ~cur[i].wrote
            /\ Document = cur[i].data

\* C19: toggle succeeds exactly on a boolean and then stores its negation,
\* changing nothing else, so that a second toggle restores the document; on
\* any other value, an absent path included, it fails with TypeMismatch and
\* writes nothing.
C19_Toggle ==
  \A i \in Inst : (pc[i] = "rel" /\ cur[i].req.op = "toggle") => Toggled(i)

\* The same for the paths that go through objects only.
C19_ToggleInObjects ==
  \A i \in Inst :
    (pc[i] = "rel" /\ cur[i].req.op = "toggle" /\ cur[i].req.key # <<"b", "0">>)
    => Toggled(i)

\* A second toggle of a nested boolean has restored the document.
C19_Witness ==
  /\ pc[1] = "rel" /\ cur[1].req.key = <<"a", "b">> /\ cur[1].res.out.ok
  /\ Len(hist[1]) = 1 /\ hist[1][1].out.ok
  /\ Document = Obj([a |-> Obj([b |-> Bool(FALSE)]), b |-> Str("x")])

(***************************************************************************)
(* has and delete, on one instance                                         *)
(***************************************************************************)
HasDocs ==
  { Obj([a |-> Num(1)]),
    Obj([a |-> Obj([b |-> Bool(FALSE)]), b |-> Null]),
    EmptyObj }

HasPaths == { <<"a">>, <<"b">>, <<"a", "b">> }

\* Calls made in one run.
MaxHasOps == 2

InitHas == InitWith(HasDocs, {FALSE})

NextHas ==
  \/ \E keyPath \in HasPaths : Submit(1, CallHas(keyPath), MaxHasOps)
  \/ \E keyPath \in HasPaths : Submit(1, CallDelete(keyPath), MaxHasOps)
  \/ Begin(1) \/ Acquire(1) \/ ReadPrimary(1)
  \/ TmpOpen(1) \/ TmpWrite(1) \/ Rename(1) \/ Release(1)

SpecHas == InitHas /\ [][NextHas]_vars

\* A value is there at keys: every segment names an own property.
RECURSIVE Exists(_, _)
Exists(v, keys) ==
  IF keys = <<>> THEN TRUE
  ELSE /\ v.t = "obj"
       /\ Head(keys) \in DOMAIN v.o
       /\ Exists(v.o[Head(keys)], Tail(keys))

\* C20: has(p) returns true exactly when a value exists at p in the document
\* it reads: false for a path never set, false after delete(p).
C20_HasIffExists ==
  \A i \in Inst :
    (pc[i] = "rel" /\ cur[i].req.op = "has")
    => cur[i].res.out = Success(Bool(Exists(cur[i].data, cur[i].req.key)))

\* has(p) has run after a delete(p) that removed the value.
C20_AfterDelete ==
  /\ pc[1] = "rel" /\ cur[1].req.op = "has"
  /\ Len(hist[1]) = 1 /\ hist[1][1].req.op = "delete"
  /\ hist[1][1].req.key = cur[1].req.key
  /\ hist[1][1].out = Success(Bool(TRUE))
  /\ ~Exists(cur[1].data, cur[1].req.key)

(***************************************************************************)
(* delete, on one instance                                                 *)
(***************************************************************************)
DeleteDocs ==
  { Obj([a |-> Obj([b |-> Bool(FALSE)]), b |-> Arr(<<Num(1), Num(2)>>)]),
    Obj([a |-> Num(1), b |-> Null]),
    Obj([a |-> Obj([a |-> Num(0), b |-> Str("x")])]),
    EmptyObj }

DeletePaths == { <<"a">>, <<"b">>, <<"a", "b">>, <<"b", "0">> }

\* Deletes made in one run.
MaxDeleteOps == 2

InitDelete == InitWith(DeleteDocs, {FALSE})

NextDelete ==
  \/ \E keyPath \in DeletePaths : Submit(1, CallDelete(keyPath), MaxDeleteOps)
  \/ Begin(1) \/ Acquire(1) \/ ReadPrimary(1)
  \/ TmpOpen(1) \/ TmpWrite(1) \/ Rename(1) \/ Release(1)

SpecDelete == InitDelete /\ [][NextDelete]_vars

\* p is a prefix of q.
IsPrefix(p, q) == Len(p) <= Len(q) /\ SubSeq(q, 1, Len(p)) = p

\* The paths that a change at p leaves alone.
Apart(p) ==
  { q \in { <<"a">>, <<"b">>, <<"a", "a">>, <<"a", "b">>, <<"b", "0">>, <<"b", "1">> } :
      ~IsPrefix(p, q) /\ ~IsPrefix(q, p) }

\* A delete of keyPath has run on the document it read: where get finds a
\* value at the path it has returned true, a get of the path now returns its
\* default and every path apart keeps its value; where there is none it has
\* returned false, written nothing and left the document as it was.
Deleted(i) ==
  LET keyPath == cur[i].req.key
  IN IF deepGet(cur[i].data, keyPath, Undef) # Undef
       THEN /\ cur[i].res.out = Success(Bool(TRUE))
            /\ deepGet(Document, keyPath, Str("d")) = Str("d")
            /\ \A q \in Apart(keyPath) :
                 deepGet(Document, q, Undef) = deepGet(cur[i].data, q, Undef)
       ELSE /\ cur[i].res.out = Success(Bool(FALSE))
            /\ ~cur[i].wrote
            /\ Document = cur[i].data

\* C21: delete(p) returns true exactly when p resolved to a value; then the
\* leaf is gone, a following get(p, d) returns d, and every other path keeps
\* its value; otherwise it returns false, removes nothing and writes nothing.
C21_Delete ==
  \A i \in Inst : (pc[i] = "rel" /\ cur[i].req.op = "delete") => Deleted(i)

\* The same for the paths that go through objects only.
C21_DeleteInObjects ==
  \A i \in Inst :
    (pc[i] = "rel" /\ cur[i].req.op = "delete" /\ cur[i].req.key # <<"b", "0">>)
    => Deleted(i)

(***************************************************************************)
(* The empty path, on one instance                                         *)
(***************************************************************************)
EmptyPathDocs == { EmptyObj, Obj([a |-> Num(1), b |-> Arr(<<Null>>)]) }

EmptyPathCalls ==
  { CallGet(<<>>), CallDelete(<<>>), CallSet(<<>>, Num(2)),
    CallSet(<<>>, Obj([b |-> Num(3)])),
    Request("set", <<>>, Obj([b |-> Num(3)]), "", FALSE, TRUE),
    CallSet(<<"a">>, Num(2)) }

\* Calls made in one run.
MaxEmptyPathOps == 2

InitEmptyPath == InitWith(EmptyPathDocs, {FALSE})

NextEmptyPath ==
  \/ \E req \in EmptyPathCalls : Submit(1, req, MaxEmptyPathOps)
  \/ Begin(1) \/ Skip(1) \/ Acquire(1) \/ ReadPrimary(1)
  \/ TmpOpen(1) \/ TmpWrite(1) \/ Rename(1) \/ Release(1)

SpecEmptyPath == InitEmptyPath /\ [][NextEmptyPath]_vars

\* The call in flight has failed and the document is as it was read.
FailedUnchanged(i) ==
  /\ ~cur[i].res.out.ok
  /\ ~cur[i].wrote
  /\ Document = cur[i].data

\* C22: with the empty path a set fails and a delete fails, the document
\* unchanged, and a get returns the whole document.
C22_EmptyPath ==
  \A i \in Inst :
    (pc[i] = "rel" /\ cur[i].req.key = <<>>)
    => CASE cur[i].req.op = "set" -> FailedUnchanged(i)
         [] cur[i].req.op = "delete" -> FailedUnchanged(i)
         [] OTHER -> cur[i].res.out = Success(cur[i].data)

\* The same without delete.
C22_EmptyPathSetGet ==
  \A i \in Inst :
    (pc[i] = "rel" /\ cur[i].req.key = <<>> /\ cur[i].req.op # "delete")
    => IF cur[i].req.op = "set" THEN FailedUnchanged(i)
       ELSE cur[i].res.out = Success(cur[i].data)

(***************************************************************************)
(* What a set leaves alone, on one instance                                *)
(***************************************************************************)
FrameDocs ==
  { Obj([a |-> Obj([a |-> Num(0)]), b |-> Arr(<<Num(1), Num(2)>>)]),
    Obj([a |-> Num(1), b |-> Obj([a |-> Null])]),
    Obj([b |-> Str("x")]),
    EmptyObj }

FramePaths == { <<"a">>, <<"a", "b">>, <<"b", "0">>, <<"b", "a", "b">> }

\* Sets made in one run.
MaxFrameOps == 2

InitFrame == InitWith(FrameDocs, {FALSE})

NextFrame ==
  \/ \E keyPath \in FramePaths : \E value \in {Num(9), EmptyObj} :
       Submit(1, CallSet(keyPath, value), MaxFrameOps)
  \/ Begin(1) \/ Acquire(1) \/ ReadPrimary(1)
  \/ TmpOpen(1) \/ TmpWrite(1) \/ Rename(1) \/ Release(1)

SpecFrame == InitFrame /\ [][NextFrame]_vars

\* A set of keyPath has run on the document it read: the value is at the
\* path and every path apart from it has the value it had.
Framed(i) ==
  /\ cur[i].res.out.ok
  /\ deepGet(Document, cur[i].req.key, Undef) = cur[i].req.val
  /\ \A q \in Apart(cur[i].req.key) :
       deepGet(Document, q, Undef) = deepGet(cur[i].data, q, Undef)

\* C23: set(p, v) changes only the location p: every path that is neither a
\* prefix of p nor has p as a prefix reads the same before and after, also
\* when a segment of p before the last holds an array.
C23_SetFrame ==
  \A i \in Inst : (pc[i] = "rel" /\ cur[i].req.op = "set") => Framed(i)

\* The same for the sets that meet no array on their way.
C23_SetFrameInObjects ==
  \A i \in Inst :
    ( /\ pc[i] = "rel" /\ cur[i].req.op = "set"
      /\ \A k \in 1 .. Len(cur[i].req.key) - 1 :
           deepGet(cur[i].data, SubSeq(cur[i].req.key, 1, k), Undef).t # "arr" )
    => Framed(i)

(***************************************************************************)
(* CacheManager                                                            *)
(***************************************************************************)
\* options.maxSize, in bytes.
MaxSize == 2

\* The number of decimal digits of a natural number.
RECURSIVE Digits(_)
Digits(x) == IF x < 10 THEN 1 ELSE 1 + Digits(x \div 10)

\* Buffer.byteLength(JSON.stringify(value), "utf-8") for the values cached
\* here, which are natural numbers.
ByteLength(value) == Digits(value.n)

\* new Node(key, value, size)
Node(key, value, size) ==
  [key |-> key, value |-> value, size |-> size, prev |-> 0, next |-> 0,
   timestamp |-> now]

\* The fields of the CacheManager that the list and map operations work on.
Manager ==
  [cache |-> cache, nodes |-> nodes, head |-> head, tail |-> tail,
   currentSize |-> currentSize]

Becomes(c) ==
  /\ cache' = c.cache
  /\ nodes' = c.nodes
  /\ head' = c.head
  /\ tail' = c.tail
  /\ currentSize' = c.currentSize

\* removeNode(node): the four statements in their order, each reading what the
\* ones before it have written.
removeNode(c, node) ==
  LET n1 == IF c.nodes[node].prev # 0
              THEN [c.nodes EXCEPT ![c.nodes[node].prev].next = c.nodes[node].next]
              ELSE c.nodes
      n2 == IF n1[node].next # 0
              THEN [n1 EXCEPT ![n1[node].next].prev = n1[node].prev]
              ELSE n1
  IN [c EXCEPT !.nodes = n2,
               !.head = IF c.head = node THEN n2[node].next ELSE c.head,
               !.tail = IF c.tail = node THEN n2[node].prev ELSE c.tail]

\* addToFront(node): node.prev is left as it is.
addToFront(c, node) ==
  LET n1 == [c.nodes EXCEPT ![node].next = c.head]
      n2 == IF c.head # 0 THEN [n1 EXCEPT ![c.head].prev = node] ELSE n1
  IN [c EXCEPT !.nodes = n2,
               !.head = node,
               !.tail = IF c.tail = 0 THEN node ELSE c.tail]

moveToFront(c, node) == addToFront(removeNode(c, node), node)

\* The keys of `order` without k, and with k moved to the front.
Without(order, k) == SelectSeq(order, LAMBDA x : x # k)

Touch(order, k) == <<k>> \o Without(order, k)

\* processWriteQueue: the loop over the queued puts q, from the manager c.
\* `cleanups` counts the calls of lazyCleanup it makes, `order` and `last`
\* are the observations it leaves.
RECURSIVE processWriteQueue(_, _, _)
processWriteQueue(c, q, obs) ==
  IF q = <<>> THEN [c |-> c, obs |-> obs]
  ELSE
    LET key == Head(q).key
        value == Head(q).value
        size == ByteLength(value)
        c1 == IF c.cache[key] # 0 THEN removeNode(c, c.cache[key]) ELSE c
        newNode == Len(c1.nodes) + 1
        c2 == [c1 EXCEPT !.nodes = Append(@, Node(key, value, size)),
                         !.cache[key] = newNode]
        c3 == addToFront(c2, newNode)
        c4 == [c3 EXCEPT !.currentSize = @ + size]
    IN processWriteQueue(c4, Tail(q),
         [obs EXCEPT !.order = Touch(@, key),
                     !.last = key,
                     !.cleanups = @ + (IF c4.currentSize > MaxSize THEN 1 ELSE 0)])

\* The loop of lazyCleanup; `ev` collects the keys whose entry the loop deletes
\* from the cache map.
RECURSIVE lazyCleanup(_, _)
lazyCleanup(c, ev) ==
  IF c.currentSize > MaxSize /\ c.tail # 0
    THEN LET removedNode == c.tail
             c1 == removeNode(c, removedNode)
             c2 == [c1 EXCEPT !.cache[c.nodes[removedNode].key] = 0,
                              !.currentSize = @ - c.nodes[removedNode].size]
         IN lazyCleanup(c2, IF c.cache[c.nodes[removedNode].key] # 0
                                THEN Append(ev, c.nodes[removedNode].key) ELSE ev)
    ELSE [c |-> c, ev |-> ev]

\* A callback given to setImmediate.
Task(kind, key) == [kind |-> kind, key |-> key]

RECURSIVE Repeat(_, _)
Repeat(x, k) == IF k = 0 THEN <<>> ELSE <<x>> \o Repeat(x, k - 1)

\* The values the callers cache: 1, 2 and 3 bytes long.
CacheValues == { Num(1), Num(22), Num(333) }

\* setCache(key, value): the put is queued, and the queue is scheduled for
\* processing unless that is already so.
setCache(key, value, max) ==
  /\ seen.calls < max
  /\ writeQueue' = Append(writeQueue, [key |-> key, value |-> value])
  /\ isWriting' = TRUE
  /\ immediates' = IF isWriting THEN immediates
                   ELSE Append(immediates, Task("write", ""))
  /\ seen' = [seen EXCEPT !.calls = @ + 1, !.pending = @ + 1]
  /\ UNCHANGED <<cache, nodes, head, tail, currentSize, now, ttl, storeVars, closer, db, daily>>

\* getCache, deleteCache and clearCache only schedule their callback.
Schedule(kind, key, max) ==
  /\ seen.calls < max
  /\ immediates' = Append(immediates, Task(kind, key))
  /\ seen' = [seen EXCEPT !.calls = @ + 1]
  /\ UNCHANGED <<cache, nodes, head, tail, currentSize, writeQueue, isWriting,
                 now, ttl, storeVars, closer, db, daily>>

getCache(key, max) == Schedule("get", key, max)

deleteCache(key, max) == Schedule("delete", key, max)

clearCache(max) == Schedule("clear", "", max)

\* The next setImmediate callback is the one setCache scheduled: the whole
\* write queue is processed, each lazyCleanup it calls schedules a callback,
\* and resolve() settles the promise of the setCache call that scheduled it.
RunWrite ==
  /\ immediates # <<>> /\ Head(immediates).kind = "write"
  /\ LET r == processWriteQueue(Manager, writeQueue,
                [order |-> seen.order, last |-> seen.last, cleanups |-> 0])
     IN /\ Becomes(r.c)
        /\ immediates' = Tail(immediates) \o Repeat(Task("cleanup", ""), r.obs.cleanups)
        /\ seen' = [seen EXCEPT !.order = r.obs.order, !.last = r.obs.last,
                                !.pending = @ - 1]
  /\ writeQueue' = <<>>
  /\ isWriting' = FALSE
  /\ UNCHANGED <<now, ttl, storeVars, closer, db, daily>>

\* A get that never takes an entry for expired.
ExpiredNever(timestamp) == FALSE

\* this.ttl && Date.now() - node.timestamp > this.ttl
Expired(timestamp) == ttl # 0 /\ now - timestamp > ttl

\* The time since the entry was last written or, if it was the entry that
\* the last successful get returned, since that get.
Idleness(node) ==
  IF seen.touched.node = node THEN now - seen.touched.at ELSE now - nodes[node].timestamp

\* The callback of getCache(key).
RunGet ==
  /\ immediates # <<>> /\ Head(immediates).kind = "get"
  /\ LET key == Head(immediates).key
         node == cache[key]
     IN IF node = 0
          THEN /\ seen' = [seen EXCEPT !.got = [key |-> key, hit |-> FALSE,
                                                value |-> Null, age |-> 0,
                                                present |-> FALSE, idle |-> 0]]
               /\ immediates' = Tail(immediates)
               /\ UNCHANGED <<cache, nodes, head, tail, currentSize>>
          ELSE IF Expired(nodes[node].timestamp)
            THEN /\ seen' = [seen EXCEPT
                      !.got = [key |-> key, hit |-> FALSE, value |-> Null,
                               age |-> now - nodes[node].timestamp,
                               present |-> TRUE, idle |-> Idleness(node)],
                      !.expired = @ \cup {node}]
                 /\ immediates' = Append(Tail(immediates), Task("delete", key))
                 /\ UNCHANGED <<cache, nodes, head, tail, currentSize>>
            ELSE /\ Becomes(moveToFront(Manager, node))
                 /\ seen' = [seen EXCEPT
                      !.got = [key |-> key, hit |-> TRUE, value |-> nodes[node].value,
                               age |-> now - nodes[node].timestamp,
                               present |-> TRUE, idle |-> Idleness(node)],
                      !.touched = [node |-> node, at |-> now],
                      !.order = Touch(@, key)]
                 /\ immediates' = Tail(immediates)
  /\ UNCHANGED <<writeQueue, isWriting, now, ttl, storeVars, closer, db, daily>>

\* The callback of deleteCache(key).
RunDelete ==
  /\ immediates # <<>> /\ Head(immediates).kind = "delete"
  /\ LET key == Head(immediates).key
         node == cache[key]
     IN IF node = 0
          THEN UNCHANGED <<cache, nodes, head, tail, currentSize, seen>>
          ELSE /\ Becomes([removeNode(Manager, node) EXCEPT
                             !.cache[key] = 0,
                             !.currentSize = @ - nodes[node].size])
               /\ seen' = [seen EXCEPT !.order = Without(@, key),
                                       !.last = IF @ = key THEN "" ELSE @]
  /\ immediates' = Tail(immediates)
  /\ UNCHANGED <<writeQueue, isWriting, now, ttl, storeVars, closer, db, daily>>

\* The callback of clearCache().
RunClear ==
  /\ immediates # <<>> /\ Head(immediates).kind = "clear"
  /\ Becomes([Manager EXCEPT !.cache = [k \in CacheKeys |-> 0],
                             !.head = 0, !.tail = 0, !.currentSize = 0])
  /\ seen' = [seen EXCEPT !.order = <<>>, !.last = ""]
  /\ immediates' = Tail(immediates)
  /\ UNCHANGED <<writeQueue, isWriting, now, ttl, storeVars, closer, db, daily>>

\* The callback of lazyCleanup().
RunCleanup ==
  /\ immediates # <<>> /\ Head(immediates).kind = "cleanup"
  /\ LET r == lazyCleanup(Manager, <<>>)
     IN /\ Becomes(r.c)
        /\ seen' = [seen EXCEPT
                      !.evicted = r.ev,
                      !.order = SelectSeq(@, LAMBDA k : r.c.cache[k] # 0)]
  /\ immediates' = Tail(immediates)
  /\ UNCHANGED <<writeQueue, isWriting, now, ttl, storeVars, closer, db, daily>>

\* Calls made on the cache in one run.
MaxCacheCalls == 4

\* A Storage that is not used, beside the cache.
NoStore ==
  /\ fs = [n \in {file, lockFile, backupFile, tempFile} |-> NoFile]
  /\ options = [backup |-> FALSE]
  /\ queue = [i \in Inst |-> <<>>]
  /\ pc = [i \in Inst |-> "idle"]
  /\ cur = [i \in Inst |-> Idle]
  /\ elapsed = [i \in Inst |-> 0]
  /\ hist = [i \in Inst |-> <<>>]
  /\ closer = [i \in Inst |-> NotClosing]
  /\ db = NoDb /\ daily = NoDaily

InitCache == NoStore /\ NewCacheManager(0)

NextCache ==
  \/ \E key \in CacheKeys : \E value \in CacheValues : setCache(key, value, MaxCacheCalls)
  \/ \E key \in CacheKeys : getCache(key, MaxCacheCalls)
  \/ \E key \in CacheKeys : deleteCache(key, MaxCacheCalls)
  \/ clearCache(MaxCacheCalls)
  \/ RunWrite \/ RunGet \/ RunDelete \/ RunClear \/ RunCleanup

SpecCache == InitCache /\ [][NextCache]_vars

\* Longer runs of puts and gets on two keys.
MaxLruCalls == 5

NextLru ==
  \/ \E key \in {"A", "B"} : \E value \in {Num(1), Num(22)} :
       setCache(key, value, MaxLruCalls)
  \/ \E key \in {"A", "B"} : getCache(key, MaxLruCalls)
  \/ RunWrite \/ RunGet \/ RunCleanup

SpecLru == InitCache /\ [][NextLru]_vars

\* options.ttl, and the time the clock is followed for, in milliseconds.
Ttl == 1

MaxTime == 3

\* Calls made on a cache with a ttl in one run.
MaxTtlCalls == 3

\* Date.now() advances.
Tick ==
  /\ now < MaxTime
  /\ now' = now + 1
  /\ UNCHANGED <<cache, nodes, head, tail, currentSize, writeQueue, isWriting,
                 immediates, ttl, seen, storeVars, closer, db, daily>>

InitTtl == NoStore /\ NewCacheManager(Ttl)

NextTtl ==
  \/ \E key \in {"A", "B"} : \E value \in {Num(1), Num(22)} :
       setCache(key, value, MaxTtlCalls)
  \/ \E key \in {"A", "B"} : getCache(key, MaxTtlCalls)
  \/ Tick
  \/ RunWrite \/ RunGet \/ RunDelete \/ RunCleanup

SpecTtl == InitTtl /\ [][NextTtl]_vars

(***************************************************************************)
(* Properties of the CacheManager                                          *)
(***************************************************************************)
\* No put is queued and no callback is pending.
Quiescent == writeQueue = <<>> /\ immediates = <<>>

Live == { k \in CacheKeys : cache[k] # 0 }

RECURSIVE SizeOf(_)
SizeOf(keys) ==
  IF keys = {} THEN 0
  ELSE LET k == CHOOSE x \in keys : TRUE
       IN nodes[cache[k]].size + SizeOf(keys \ {k})

\* The total size of the entries in the cache map.
TotalSize == SizeOf(Live)

\* C12: once the puts are processed and the eviction passes are done, the
\* entries held and the currentSize counter are both within maxSize, unless
\* the entry inserted last is by itself larger than maxSize, and then they are
\* within maxSize without it.
C12_WithinBudget ==
  Quiescent =>
    \/ TotalSize <= MaxSize /\ currentSize <= MaxSize
    \/ /\ seen.last \in Live
       /\ nodes[cache[seen.last]].size > MaxSize
       /\ TotalSize - nodes[cache[seen.last]].size <= MaxSize
       /\ currentSize - nodes[cache[seen.last]].size <= MaxSize

\* C13: once the eviction passes are done, the entry that the last put
\* inserted, if its caller has not deleted it, is still in the cache.
C13_NewestKept ==
  (Quiescent /\ seen.last # "") => seen.last \in Live

\* C14: the keys an eviction pass removes are the least recently used ones of
\* the live entries, the oldest first.
C14_LruOrder ==
  [][( /\ immediates # <<>> /\ Head(immediates).kind = "cleanup"
       /\ immediates' = Tail(immediates) )
     => /\ Len(seen'.evicted) <= Len(seen.order)
        /\ \A j \in 1 .. Len(seen'.evicted) :
             j <= Len(seen.order)
             => seen'.evicted[j] = seen.order[Len(seen.order) - j + 1] ]_vars

\* C15: a get returns the entry it finds exactly when the age of the entry is
\* at most the ttl: an older entry, though nothing evicted it, is reported
\* absent; and once the callbacks that get scheduled have run, no entry that
\* a get found expired is in the cache map.
C15_TtlExpiry ==
  /\ seen.got.present => (seen.got.hit <=> seen.got.age <= ttl)
  /\ Quiescent => \A k \in CacheKeys : cache[k] \notin seen.expired

C15_Witness ==
  /\ seen.got.present /\ ~seen.got.hit /\ seen.got.age > ttl
  /\ seen.expired # {}
  /\ Quiescent
  /\ cache[seen.got.key] = 0

\* C34: a get that hits refreshes the entry's timestamp: a get finds the
\* entry still served when no more than ttl has passed since it was last
\* written or read.
C34_AccessRefreshes ==
  (ttl # 0 /\ seen.got.present /\ seen.got.idle <= ttl) => seen.got.hit

\* C38: the removal that a get of an expired entry defers never removes a
\* newer entry: under SpecTtl, where every "delete" callback is one that a
\* get scheduled, the callback leaves in the cache map every entry that no
\* get has found expired.
C38_DeferredRemovalSparesNewer ==
  [][( /\ immediates # <<>> /\ Head(immediates).kind = "delete"
       /\ immediates' = Tail(immediates) )
     => \A k \in CacheKeys :
          (cache[k] # 0 /\ cache[k] \notin seen.expired) => cache'[k] = cache[k] ]_vars

\* The removal that a get defers leaves the entries of the other keys alone.
C38_DeferredRemovalSparesOtherKeys ==
  [][( /\ immediates # <<>> /\ Head(immediates).kind = "delete"
       /\ immediates' = Tail(immediates) )
     => \A k \in CacheKeys \ {Head(immediates).key} : cache'[k] = cache[k] ]_vars

\* C36: every setCache call resolves once its entry is inserted: when no put
\* is queued and no callback is pending, no promise of setCache is pending.
C36_EveryPutResolves == Quiescent => seen.pending = 0

\* What does hold: all the puts have been processed by then, and the promise
\* of the call that scheduled the processing has resolved.
C36_EveryPutProcessed ==
  Quiescent => (~isWriting /\ (seen.pending = 0 \/ seen.pending < seen.calls))

\* C16: at every quiescent point currentSize is the total size of the entries
\* in the cache map, and it is never negative.
C16_SizeAccounting ==
  /\ currentSize >= 0
  /\ Quiescent => currentSize = TotalSize

\* The nodes met from `node` on following `field`, at most `fuel` of them.
RECURSIVE Chain(_, _, _)
Chain(node, field, fuel) ==
  IF node = 0 \/ fuel = 0 THEN <<>>
  ELSE <<node>> \o Chain(IF field = "next" THEN nodes[node].next ELSE nodes[node].prev,
                         field, fuel - 1)

\* A chain of nodes holds exactly the entries of the cache map, each once.
ExactlyLive(chain) ==
  /\ Len(chain) = Cardinality(Live)
  /\ \A k \in Live : \E j \in DOMAIN chain : chain[j] = cache[k]

\* C17: the list from head by next and the list from tail by prev each hold
\* exactly the entries of the cache map, once each and without cycle; head and
\* tail are null exactly when the map is empty.
C17_ListIntegrity ==
  /\ ExactlyLive(Chain(head, "next", Len(nodes) + 1))
  /\ ExactlyLive(Chain(tail, "prev", Len(nodes) + 1))
  /\ (head = 0) = (Live = {})
  /\ (tail = 0) = (Live = {})

(***************************************************************************)
(* The Storage that createDB makes (src/src/storage.ts, second class): the *)
(* document is cached in memory when it fits cacheLimit, and writes are    *)
(* batched on a one second timer.  One instance, one process; a step is    *)
(* what runs between two awaits.                                           *)
(***************************************************************************)
\* Everything but the directory and the batched Storage.
notDb == <<options, queue, pc, cur, elapsed, hist, closer, cache, nodes, head, tail,
           currentSize, writeQueue, isWriting, immediates, now, ttl, seen, daily>>

\* Buffer.byteLength(JSON.stringify(data), "utf-8"), counted in JSON tokens.
JsonSize(data) == Len(Stringify(data))

\* readFile: JSON.parse of the file, or {} when reading or parsing throws.
readFileDb(f) ==
  IF f.exists /\ JSONparse(f.text).ok THEN JSONparse(f.text).v ELSE EmptyObj

\* path.split(".").reduce((o, k) => (o && o[k] !== undefined ? o[k] :
\* defaultValue), obj); properties of strings are not modelled.
RECURSIVE deepGetDb(_, _, _)
deepGetDb(o, keys, defaultValue) ==
  IF keys = <<>> THEN o
  ELSE deepGetDb(IF ~Falsy(o) /\ IsObjectLike(o) /\ GetProp(o, Head(keys)) # Undef
                   THEN GetProp(o, Head(keys)) ELSE defaultValue,
                 Tail(keys), defaultValue)

\* deepSet: arrays met on the way are kept.
RECURSIVE deepSetDb(_, _, _)
deepSetDb(current, keys, value) ==
  IF Len(keys) = 1 THEN SetProp(current, keys[1], value)
  ELSE IF ~IsObjectLike(current) THEN Failure("TypeError")
  ELSE LET child == GetProp(current, Head(keys))
           base == IF Falsy(child) \/ ~IsObjectLike(child) THEN EmptyObj ELSE child
           sub == deepSetDb(base, Tail(keys), value)
       IN IF sub.ok THEN SetProp(current, Head(keys), sub.v) ELSE sub

\* The own enumerable properties that { ...v } copies.
Own(v) ==
  IF v.t = "obj" THEN v.o
  ELSE IF v.t = "arr"
    THEN [k \in { x \in {"0", "1", "2"} : IndexOf(x) < Len(v.a) } |-> v.a[IndexOf(k) + 1]]
  ELSE NoFn

\* The body of set up to writeFile, on the document `data`: the document
\* afterwards, or what it throws.
setDb(data, req) ==
  LET existingValue == deepGetDb(data, req.key, Undef)
  IN IF existingValue.t = "num" /\ req.operation # ""
       THEN IF req.operation \in {"+", "-", "*", "/", "%", "**"}
              THEN LET result == performMathOperation(existingValue, req.val, req.operation)
                   IN IF result.ok THEN deepSetDb(data, req.key, result.v) ELSE result
              ELSE Failure("InvalidOperation")
     ELSE IF req.append /\ IsArray(existingValue) /\ IsArray(req.val)
       THEN deepSetDb(data, req.key, Arr(existingValue.a \o req.val.a))
     ELSE IF req.merge /\ existingValue.t \in {"obj", "arr", "null"}
                       /\ req.val.t \in {"obj", "arr", "null"}
       THEN deepSetDb(data, req.key,
              Obj([k \in DOMAIN Own(existingValue) \cup DOMAIN Own(req.val) |->
                     IF k \in DOMAIN Own(req.val) THEN Own(req.val)[k]
                     ELSE Own(existingValue)[k]]))
     ELSE deepSetDb(data, req.key, req.val)

CallSaveNow == Request("saveNow", <<>>, Null, "", FALSE, FALSE)

\* new Storage(dir, dbName, cacheLimit): the constructor calls init(), which
\* runs up to its first await.
createDB(cacheLimit) == [NoDb EXCEPT !.cacheLimit = cacheLimit, !.init = "access"]

\* init: await fs.mkdir; await fs.access(file)
DbInitAccess ==
  /\ db.init = "access"
  /\ db' = [db EXCEPT !.init = IF fs[file].exists THEN "refresh" ELSE "create"]
  /\ UNCHANGED <<fs, notDb>>

\* catch: await fs.writeFile(file, "{}")
DbInitCreate ==
  /\ db.init = "create"
  /\ fs' = [fs EXCEPT ![file] = File(Stringify(EmptyObj))]
  /\ db' = [db EXCEPT !.init = "refresh"]
  /\ UNCHANGED notDb

\* refreshCache: the document is kept in memory if it fits.
refreshCache(data, cacheLimit) ==
  IF cacheLimit > 0 /\ JsonSize(data) <= cacheLimit THEN data ELSE Null

DbInitRefresh ==
  /\ db.init = "refresh"
  /\ db' = [db EXCEPT !.init = "done",
                      !.cache = refreshCache(readFileDb(fs[file]), db.cacheLimit)]
  /\ UNCHANGED <<fs, notDb>>

\* writeFile(): nothing while a batch is pending, else the timer is set.
writeFileDb(d) ==
  IF d.isBatching THEN d ELSE [d EXCEPT !.isBatching = TRUE, !.batchTimer = "armed"]

\* The call settles; `at` tells when it was made: how many calls had settled,
\* whether init() had finished, whether there was a cache and where the batch
\* timer stood.
DbSettle(d, req, at, out) ==
  [d EXCEPT !.done = Append(@, [req |-> req, at |-> at, out |-> out])]

\* set stores the caller's value itself, not a value it has made.
StoresOperand(data, req) ==
  LET existingValue == deepGetDb(data, req.key, Undef)
  IN /\ ~(existingValue.t = "num" /\ req.operation # "")
     /\ ~(req.append /\ IsArray(existingValue) /\ IsArray(req.val))
     /\ ~(req.merge /\ existingValue.t \in {"obj", "arr", "null"}
                    /\ req.val.t \in {"obj", "arr", "null"})

\* The objects the callers hold, after get has returned `val` read at the
\* path from the cache (cached) or from a document parsed for this call: the
\* object returned is the one in the cache tree, or the caller's own.
HeldAfterGet(held, req, val, cached) ==
  IF val.t = "obj" THEN held \cup {[key |-> req.key, attached |-> cached]} ELSE held

\* The same after a set that worked on the cache itself (cached) or on a
\* document parsed for this call that, with a cache present by now, becomes the
\* cache (adopted): the objects at the path and above it that callers held are
\* no longer in the tree, and the object the caller passed is.
HeldAfterSet(held, data, req, cached, adopted) ==
  LET kept == { IF h.attached /\ (~cached \/ IsPrefix(req.key, h.key))
                  THEN [h EXCEPT !.attached = FALSE] ELSE h : h \in held }
  IN IF ~(cached \/ adopted) THEN held
     ELSE IF req.val.t = "obj" /\ StoresOperand(data, req)
       THEN { h \in kept : h.key # req.key } \cup {[key |-> req.key, attached |-> TRUE]}
     ELSE kept

\* The call goes on with the document `data`, the cache or what readFile
\* returned: get returns, set changes the document, passes it to the cache if
\* there is one and calls writeFile, saveNow starts fs.writeFile.
DbBody(d, req, at, data) ==
  CASE req.op = "get" ->
         LET val == deepGetDb(data, req.key, req.val)
         IN DbSettle([d EXCEPT !.held = HeldAfterGet(@, req, val, at.cached)],
                     req, at, Success(val))
    [] req.op = "set" ->
         LET changed == setDb(data, req)
         IN IF changed.ok
              THEN DbSettle(writeFileDb(
                              [d EXCEPT !.cache = IF @ # Null THEN changed.v ELSE @,
                                        !.held = HeldAfterSet(@, data, req, at.cached,
                                                              d.cache # Null)]),
                            req, at, Success(Undef))
              ELSE DbSettle(d, req, at, changed)
    [] OTHER ->
         [d EXCEPT !.ops = Append(@, [req |-> req, at |-> at, pc |-> "write",
                                      text |-> Stringify(data)])]

\* Calls made on the batched Storage in one run.
MaxDbOps == 3

DbWhen == [settled |-> Len(db.done), ready |-> db.init = "done", cached |-> db.cache # Null,
           timer |-> db.batchTimer]

\* A call is made: with a cache it runs on the cache at once, without one it
\* awaits readFile.
DbCall(req) ==
  /\ Len(db.ops) + Len(db.done) < MaxDbOps
  /\ db' = IF db.cache # Null THEN DbBody(db, req, DbWhen, db.cache)
           ELSE [db EXCEPT !.ops = Append(@, [req |-> req, at |-> DbWhen, pc |-> "read",
                                                text |-> <<>>])]
  /\ UNCHANGED <<fs, notDb>>

Remove(seq, k) == SubSeq(seq, 1, k - 1) \o SubSeq(seq, k + 1, Len(seq))

\* readFile returns to the call k.
DbRead(k) ==
  /\ k \in DOMAIN db.ops /\ db.ops[k].pc = "read"
  /\ db' = DbBody([db EXCEPT !.ops = Remove(@, k)], db.ops[k].req, db.ops[k].at,
                  readFileDb(fs[file]))
  /\ UNCHANGED <<fs, notDb>>

\* The fs.writeFile of saveNow is done.
DbWrite(k) ==
  /\ k \in DOMAIN db.ops /\ db.ops[k].pc = "write"
  /\ fs' = [fs EXCEPT ![file] = File(db.ops[k].text)]
  /\ db' = DbSettle([db EXCEPT !.ops = Remove(@, k)], db.ops[k].req, db.ops[k].at, Success(Undef))
  /\ UNCHANGED notDb

\* The batch timer fires: const data = this.cache ?? (await this.readFile())
DbTimer ==
  /\ db.batchTimer = "armed"
  /\ db' = IF db.cache # Null
             THEN [db EXCEPT !.batchTimer = "write", !.text = Stringify(db.cache)]
             ELSE [db EXCEPT !.batchTimer = "read"]
  /\ UNCHANGED <<fs, notDb>>

DbTimerRead ==
  /\ db.batchTimer = "read"
  /\ db' = [db EXCEPT !.batchTimer = "write", !.text = Stringify(readFileDb(fs[file]))]
  /\ UNCHANGED <<fs, notDb>>

\* await fs.writeFile(...); this.isBatching = false
DbTimerWrite ==
  /\ db.batchTimer = "write"
  /\ fs' = [fs EXCEPT ![file] = File(db.text)]
  /\ db' = [db EXCEPT !.batchTimer = "none", !.isBatching = FALSE, !.text = <<>>]
  /\ UNCHANGED notDb

\* options.cacheLimit: no cache, a cache of three tokens, a large cache.
DbLimits == {0, 3, 100}

DbCalls ==
  { CallSet(<<"a">>, Num(1)), CallSet(<<"b">>, Num(2)), CallSet(<<"b", "a">>, Num(3)),
    CallGet(<<"a">>), CallSaveNow }

InitDb ==
  /\ \E f \in {NoFile, File(Stringify(EmptyObj)), File(Stringify(Obj([a |-> Num(0)])))} :
       fs = [n \in {file, lockFile, backupFile, tempFile} |->
               IF n = file THEN f ELSE NoFile]
  /\ options = [backup |-> FALSE]
  /\ queue = [i \in Inst |-> <<>>]
  /\ pc = [i \in Inst |-> "idle"]
  /\ cur = [i \in Inst |-> Idle]
  /\ elapsed = [i \in Inst |-> 0]
  /\ hist = [i \in Inst |-> <<>>]
  /\ closer = [i \in Inst |-> NotClosing]
  /\ NewCacheManager(0) /\ daily = NoDaily
  /\ \E limit \in DbLimits : db = createDB(limit)

NextDb ==
  \/ DbInitAccess \/ DbInitCreate \/ DbInitRefresh
  \/ \E req \in DbCalls : DbCall(req)
  \/ \E k \in 1 .. MaxDbOps : DbRead(k)
  \/ \E k \in 1 .. MaxDbOps : DbWrite(k)
  \/ DbTimer \/ DbTimerRead \/ DbTimerWrite

SpecDb == InitDb /\ [][NextDb]_vars

(***************************************************************************)
(* Properties of the batched Storage                                       *)
(***************************************************************************)
\* Nothing is pending: init is done, no call in flight, no batch timer.
DbQuiet == db.init = "done" /\ db.ops = <<>> /\ db.batchTimer = "none"

\* The sets among the settled calls are on distinct paths, none of which is
\* a prefix of another.
DistinctSets ==
  \A j, k \in DOMAIN db.done :
    (j # k /\ db.done[j].req.op = "set" /\ db.done[k].req.op = "set")
    => ~IsPrefix(db.done[j].req.key, db.done[k].req.key)

\* Every settled call was made after init() had finished.
AllReady == \A k \in DOMAIN db.done : db.done[k].at.ready

\* C24: sets on distinct paths issued on one instance all resolve, and once
\* nothing is pending the document on disk holds every value written.
C24_NoLostUpdate ==
  (DbQuiet /\ DistinctSets /\ AllReady)
  => \A k \in DOMAIN db.done :
       db.done[k].req.op = "set"
       => /\ db.done[k].out.ok
          /\ deepGetDb(Document, db.done[k].req.key, Undef) = db.done[k].req.val

\* What does hold: a cache, when there is one, holds every value written.
C24_CacheHoldsUpdates ==
  (db.cache # Null /\ DistinctSets /\ AllReady)
  => \A k \in DOMAIN db.done :
       db.done[k].req.op = "set"
       => /\ db.done[k].out.ok
          /\ deepGetDb(db.cache, db.done[k].req.key, Undef) = db.done[k].req.val

\* The sets that had settled when the call settled as db.done[k] was made.
SettledBefore(done, k) ==
  { j \in 1 .. done[k].at.settled : done[j].req.op = "set" /\ done[j].out.ok }

\* C25: when saveNow resolves, the primary file holds every value whose set
\* had returned before saveNow was called, whatever the cacheLimit.
C25_SaveNowFlushes ==
  [][(/\ Len(db'.done) = Len(db.done) + 1
      /\ db'.done[Len(db'.done)].req.op = "saveNow"
      /\ DistinctSets' /\ AllReady')
     => \A j \in SettledBefore(db'.done, Len(db'.done)) :
          deepGetDb(JSONparse(fs'[file].text).v, db.done[j].req.key, Undef)
            = db.done[j].req.val]_vars

\* What does hold: with a cache, saveNow writes what the cache held when it
\* was called.
C25_SaveNowFlushesCache ==
  [][(/\ Len(db'.done) = Len(db.done) + 1
      /\ db'.done[Len(db'.done)].req.op = "saveNow"
      /\ DistinctSets' /\ AllReady'
      /\ db.cache # Null)
     => \A j \in SettledBefore(db'.done, Len(db'.done)) :
          deepGetDb(JSONparse(fs'[file].text).v, db.done[j].req.key, Undef)
            = db.done[j].req.val]_vars

\* C26: without a cache (cacheLimit 0, or a document over the limit) a get
\* made after a set on the same path returned gives the value set, and once
\* nothing is pending the value is in the primary file.
C26_DiskModeStores ==
  (db.init = "done" /\ db.cache = Null /\ DistinctSets /\ AllReady)
  => \A k \in DOMAIN db.done :
       /\ db.done[k].req.op = "get"
          => \A j \in SettledBefore(db.done, k) :
               db.done[j].req.key = db.done[k].req.key
               => db.done[k].out.v = db.done[j].req.val
       /\ (DbQuiet /\ db.done[k].req.op = "set")
          => deepGetDb(Document, db.done[k].req.key, Undef) = db.done[k].req.val

\* What does hold: with a cache, a get after a set gives the value set.
C26_CacheModeStores ==
  (db.init = "done" /\ db.cache # Null /\ DistinctSets /\ AllReady)
  => \A k \in DOMAIN db.done :
       db.done[k].req.op = "get"
       => \A j \in SettledBefore(db.done, k) :
            db.done[j].req.key = db.done[k].req.key
            => db.done[k].out.v = db.done[j].req.val

(***************************************************************************)
(* The Storage with a daily backup (src/unnamed/part_001).  It has no lock *)
(* and no queue: the writeFile calls of operations that were not awaited   *)
(* run interleaved at their awaits.  The clock counts hours.               *)
(***************************************************************************)
\* Everything but the directory, the clock and the daily-backup Storage.
notDaily == <<options, queue, pc, cur, elapsed, hist, closer, cache, nodes, head, tail,
              currentSize, writeQueue, isWriting, immediates, ttl, seen, db>>

\* if (hoursSinceLastBackup < 24) return
Day == 24

\* The hours that pass at once, and the hour when the clock stops.
Waits == {12}

MaxDailyTime == 36

\* writeFile calls made in one run.
MaxDailyWrites == 3

DailyDocs == { Obj([a |-> Num(1)]), Obj([a |-> Num(2)]) }

DailyGoto(w, next) == daily' = [daily EXCEPT !.pc[w] = next]

\* writeFile(data) is called: performDailyBackup returns at once without the
\* backup option, else it awaits fs.stat(backupFile).
DailyBegin(w, data) ==
  /\ daily.pc[w] = "idle"
  /\ daily.writes < MaxDailyWrites
  /\ daily' = [daily EXCEPT !.pc[w] = IF options.backup THEN "stat" ELSE "tmp",
                            !.data[w] = Stringify(data),
                            !.writes = @ + 1,
                            !.overlap = @ \/ \E v \in Writers \ {w} : daily.pc[v] # "idle"]
  /\ UNCHANGED <<fs, now, notDaily>>

\* fs.stat returns: a backup less than 24 hours old ends performDailyBackup;
\* an older one, or ENOENT, goes on to the copy.
DailyStat(w) ==
  /\ daily.pc[w] = "stat"
  /\ DailyGoto(w, IF fs[backupFile].exists /\ now - daily.mtime < Day THEN "tmp" ELSE "copy")
  /\ UNCHANGED <<fs, now, notDaily>>

\* fs.copyFile(file, backupFile); its failure is only logged.
DailyCopy(w) ==
  /\ daily.pc[w] = "copy"
  /\ IF fs[file].exists
       THEN /\ fs' = [fs EXCEPT ![backupFile] = fs[file]]
            /\ daily' = [daily EXCEPT !.pc[w] = "tmp", !.mtime = now]
       ELSE /\ DailyGoto(w, "tmp")
            /\ UNCHANGED fs
  /\ UNCHANGED <<now, notDaily>>

\* fs.writeFile(tempFile, jsonString)
DailyTmp(w) ==
  /\ daily.pc[w] = "tmp"
  /\ fs' = [fs EXCEPT ![tempFile] = File(daily.data[w])]
  /\ DailyGoto(w, "rename")
  /\ UNCHANGED <<now, notDaily>>

\* fs.rename(tempFile, file); ENOENT when another call has renamed it away.
DailyRename(w) ==
  /\ daily.pc[w] = "rename"
  /\ IF fs[tempFile].exists
       THEN fs' = [n \in DOMAIN fs |->
                     IF n = file THEN fs[tempFile]
                     ELSE IF n = tempFile THEN NoFile ELSE fs[n]]
       ELSE UNCHANGED fs
  /\ DailyGoto(w, "idle")
  /\ UNCHANGED <<now, notDaily>>

\* Hours pass, between calls: a call takes no hours.
DailyTick ==
  /\ \A w \in Writers : daily.pc[w] = "idle"
  /\ \E h \in Waits : now + h <= MaxDailyTime /\ now' = now + h
  /\ UNCHANGED <<fs, daily, notDaily>>

\* init() has made the primary file; the backup file is missing or was made
\* at hour 0.
InitDaily ==
  /\ \E primary \in { File(Stringify(d)) : d \in {EmptyObj} \cup DailyDocs } :
       \E backup \in {NoFile, File(Stringify(BackupDoc))} :
         fs = [n \in {file, lockFile, backupFile, tempFile} |->
                 IF n = file THEN primary ELSE IF n = backupFile THEN backup ELSE NoFile]
  /\ options \in [backup : BOOLEAN]
  /\ queue = [i \in Inst |-> <<>>]
  /\ pc = [i \in Inst |-> "idle"]
  /\ cur = [i \in Inst |-> Idle]
  /\ elapsed = [i \in Inst |-> 0]
  /\ hist = [i \in Inst |-> <<>>]
  /\ closer = [i \in Inst |-> NotClosing]
  /\ db = NoDb /\ daily = NoDaily
  /\ NewCacheManager(0)

NextDaily ==
  \/ \E w \in Writers, data \in DailyDocs : DailyBegin(w, data)
  \/ \E w \in Writers : DailyStat(w)
  \/ \E w \in Writers : DailyCopy(w)
  \/ \E w \in Writers : DailyTmp(w)
  \/ \E w \in Writers : DailyRename(w)
  \/ DailyTick

SpecDaily == InitDaily /\ [][NextDaily]_vars

\* The backup file is written: its content or its mtime changes.
BackupRefreshed == fs'[backupFile] # fs[backupFile] \/ daily'.mtime # daily.mtime

\* C30: the backup file is written only when it was missing or at least 24
\* hours old: a write less than 24 hours after the backup was last modified
\* leaves it unchanged.
C30_OncePerDay ==
  [][BackupRefreshed => (~fs[backupFile].exists \/ now - daily.mtime >= Day)]_vars

\* What does hold: it is so as long as each writeFile call has returned
\* before the next is made.
C30_OncePerDayInTurn ==
  [][(BackupRefreshed /\ ~daily.overlap)
     => (~fs[backupFile].exists \/ now - daily.mtime >= Day)]_vars

(***************************************************************************)
(* Termination: every operation settles                                    *)
(***************************************************************************)
\* The pid of a process that is gone and has left its lock marker.
StalePid == <<Tok("num", 0, 1, "")>>

\* A call that resolves and a call that fails.
LiveCalls == { CallSet(<<"a">>, Num(2)), divide(<<"a">>, 0) }

\* Operations submitted in one run.
MaxLiveOps == 2

\* The lock marker is absent, or was left behind and is never removed.
InitLive ==
  /\ \E lock \in {NoFile, File(StalePid)} :
       fs = [n \in {file, lockFile, backupFile, tempFile} |->
               IF n = file THEN File(Stringify(Obj([a |-> Num(1)])))
               ELSE IF n = lockFile THEN lock ELSE NoFile]
  /\ options = [backup |-> FALSE]
  /\ queue = [i \in Inst |-> <<>>]
  /\ pc = [i \in Inst |-> "idle"]
  /\ cur = [i \in Inst |-> Idle]
  /\ elapsed = [i \in Inst |-> 0]
  /\ hist = [i \in Inst |-> <<>>]
  /\ closer = [i \in Inst |-> NotClosing]
  /\ db = NoDb /\ daily = NoDaily
  /\ NewCacheManager(0)

NextLive ==
  \E i \in Inst :
    \/ \E req \in LiveCalls : Submit(i, req, MaxLiveOps)
    \/ Step(i)

\* The event loop of each process runs the callbacks that are ready, and its
\* timers and file system calls complete.
SpecLive == InitLive /\ [][NextLive]_vars /\ \A i \in Inst : WF_vars(Step(i))

\* Every operation submitted on the instance has settled.
AllSettled(i) == pc[i] = "idle" /\ queue[i] = <<>>

MaxMutations == 1

\* A caller changes in place an object it holds, one that get returned or
\* that it passed to set: held.b = 9.  When that object is in the cache tree
\* the cache changes with it; no method of the Storage is called.
DbMutate(h) ==
  /\ h \in db.held
  /\ db.mutations < MaxMutations
  /\ db' = [db EXCEPT !.mutations = @ + 1,
                      !.cache = IF h.attached
                                  THEN deepSetDb(@, h.key \o <<"b">>, Num(9)).v ELSE @]
  /\ UNCHANGED <<fs, notDb>>

AliasCalls ==
  { CallSet(<<"a">>, Obj([a |-> Num(1)])), CallGet(<<"a">>), CallSet(<<"b">>, Num(2)) }

NextAlias ==
  \/ DbInitAccess \/ DbInitCreate \/ DbInitRefresh
  \/ \E req \in AliasCalls : DbCall(req)
  \/ \E k \in 1 .. MaxDbOps : DbRead(k)
  \/ DbTimer \/ DbTimerRead \/ DbTimerWrite
  \/ \E h \in db.held : DbMutate(h)

SpecAlias == InitDb /\ [][NextAlias]_vars

\* The document that gets read and that the timer and saveNow write.
Stored == IF db.cache # Null THEN db.cache ELSE readFileDb(fs[file])

\* C32: a caller changing in place an object that get returned or that it
\* passed to set changes neither the document later gets read nor the primary
\* file.
C32_NoAlias ==
  [][db'.mutations # db.mutations => (Stored' = Stored /\ fs' = fs)]_vars

\* What does hold: it is so while the Storage has no cache.
C32_NoAliasWithoutCache ==
  [][(db'.mutations # db.mutations /\ db.cache = Null)
     => (Stored' = Stored /\ fs' = fs)]_vars

(***************************************************************************)
(* When a mutating operation resolves                                      *)
(***************************************************************************)
\* The promise of the operation in flight on instance i resolves, the
\* operation having written a new document.
ResolvesWritten(i) ==
  pc[i] = "rel" /\ pc'[i] = "idle" /\ cur[i].res.write /\ cur[i].res.out.ok

GetNow(keys) ==
  deepGetDb(IF db.cache # Null THEN db.cache ELSE readFileDb(fs[file]), keys, Undef)

\* C39: a set made right after construction, before init() has finished, is
\* not lost: once nothing is pending, a get returns the value and the value
\* is in the primary file.
C39_EarlySetKept ==
  (DbQuiet /\ DistinctSets)
  => \A k \in DOMAIN db.done :
       (db.done[k].req.op = "set" /\ ~db.done[k].at.ready)
       => /\ db.done[k].out.ok
          /\ GetNow(db.done[k].req.key) = db.done[k].req.val
          /\ deepGetDb(Document, db.done[k].req.key, Undef) = db.done[k].req.val

\* The part of it about stores that have a cache once init() has finished:
\* a get returns the value of a set made before.
C39_EarlySetKeptInCache ==
  (DbQuiet /\ DistinctSets /\ db.cache # Null)
  => \A k \in DOMAIN db.done :
       (db.done[k].req.op = "set" /\ ~db.done[k].at.ready)
       => GetNow(db.done[k].req.key) = db.done[k].req.val


(***************************************************************************)
(* What the batch timer writes                                             *)
(***************************************************************************)
\* No saveNow is among the settled calls.
NoSaveNow == \A k \in DOMAIN db.done : db.done[k].req.op # "saveNow"

\* C40: every mutation whose call returned is in the end written to the
\* primary file though no mutation and no saveNow follows it, whether the
\* batch timer was idle, pending or writing when it was made: once nothing is
\* pending, the primary file holds the value of every set that resolved.
C40_EveryMutationWritten ==
  (DbQuiet /\ DistinctSets /\ AllReady /\ NoSaveNow)
  => \A k \in DOMAIN db.done :
       (db.done[k].req.op = "set" /\ db.done[k].out.ok)
       => deepGetDb(Document, db.done[k].req.key, Undef) = db.done[k].req.val

\* What does hold: the mutations made on the cache while the timer's
\* fs.writeFile was not in progress are written.
C40_WrittenUnlessWriting ==
  (DbQuiet /\ DistinctSets /\ AllReady /\ NoSaveNow)
  => \A k \in DOMAIN db.done :
       ( /\ db.done[k].req.op = "set" /\ db.done[k].out.ok
         /\ db.done[k].at.cached /\ db.done[k].at.timer # "write" )
       => deepGetDb(Document, db.done[k].req.key, Undef) = db.done[k].req.val

====
